---- MODULE Spec2Model ----
(***************************************************************************)
(* Model of the framing layer of dawn-wire-example: the circular byte      *)
(* buffer Pipe<Size> (src/pipe.hh) and the protocol engine                 *)
(* DawnRemoteProtocol (src/protocol.cc) as used by the server's Conn       *)
(* (src/server.cc).                                                        *)
(*                                                                         *)
(* Bytes are integers.  A descriptor is a record [in, eof, out]: in is the *)
(* sequence of bytes the peer has written and this side has not read yet,  *)
(* eof says the peer has closed, out is every byte this side's write       *)
(* syscalls have been accepted for, in order.                              *)
(***************************************************************************)
EXTENDS Integers, Sequences, FiniteSets, TLC

VARIABLES
  \* ---- Pipe<Size> under test (src/pipe.cc PipeTest) ----
  pipe,      \* the Pipe object: [size, storage, w, r]
  pfd,       \* the descriptor the pipe's FD operations talk to
  pin,       \* history: bytes that entered the pipe since the last clear()
  pout,      \* history: bytes that left the pipe since the last clear()
  pop,       \* the last Pipe operation: [name, n, ret, null]
  pnum       \* the test numbers the bytes it offers (else they are all 1)

pvars == <<pipe, pfd, pin, pout, pop, pnum>>

\* ------------------------------------------------------------------------
\* Bounds of the model
\* ------------------------------------------------------------------------
PIPE_SIZE == 4        \* Size of the Pipe under test (PipeTest uses 32)
MaxPipeBytes == 6     \* bytes that may enter the pipe under test in total

\* ------------------------------------------------------------------------
\* Helpers
\* ------------------------------------------------------------------------
Min(a, b) == IF a < b THEN a ELSE b
Max(a, b) == IF a > b THEN a ELSE b

Seqs(S, n) == UNION { [1..k -> S] : k \in 0..n }

IsPrefix(s, t) == Len(s) <= Len(t) /\ SubSeq(t, 1, Len(s)) = s

Drop(s, k) == SubSeq(s, k + 1, Len(s))
Take(s, k) == SubSeq(s, 1, k)

\* ------------------------------------------------------------------------
\* Descriptor: non-blocking read(2) / write(2)
\* ------------------------------------------------------------------------
NewFD == [in |-> <<>>, eof |-> FALSE, out |-> <<>>]

\* every result read(fd, buf, count) can produce, count > 0
sysread(fd, count) ==
     { [n |-> k, errno |-> "none", data |-> Take(fd.in, k),
        fd |-> [fd EXCEPT !.in = Drop(fd.in, k)]] :
          k \in 1..Min(count, Len(fd.in)) }
  \cup (IF fd.in = <<>> /\ fd.eof
          THEN { [n |-> 0, errno |-> "none", data |-> <<>>, fd |-> fd] }
          ELSE { [n |-> -1, errno |-> "EAGAIN", data |-> <<>>, fd |-> fd] })
  \cup { [n |-> -1, errno |-> "EIO", data |-> <<>>, fd |-> fd] }

\* every result write(fd, buf, count) can produce, count = Len(data) > 0
syswrite(fd, data) ==
     { [n |-> k, errno |-> "none",
        fd |-> [fd EXCEPT !.out = fd.out \o Take(data, k)]] :
          k \in 1..Len(data) }
  \cup { [n |-> -1, errno |-> e, fd |-> fd] : e \in {"EAGAIN", "EIO"} }

\* ------------------------------------------------------------------------
\* Pipe<Size>  (src/pipe.hh)
\* ------------------------------------------------------------------------
NewPipe(Size) == [size |-> Size, storage |-> [i \in 0..(Size - 1) |-> 0],
                  w |-> 0, r |-> 0]

cap(p) == p.size - 1
len(p) == (p.size - p.r + p.w) % p.size
avail(p) == (p.size - 1 - p.w + p.r) % p.size

\* memcpy(_storage + off, data[from+1 .. from+n], n)
memcpy(storage, off, data, from, n) ==
  [i \in DOMAIN storage |->
     IF i >= off /\ i < off + n THEN data[from + (i - off) + 1] ELSE storage[i]]

\* the n bytes of _storage starting at off
bytesAt(storage, off, n) == [k \in 1..n |-> storage[off + k - 1]]

clear(p) == [p EXCEPT !.w = 0, !.r = 0]

at(p, index) == p.storage[p.r]

\* write() with the cursor advanced without the wrap
write_nomod(p, data) ==
  LET nbyte == Min(Len(data), avail(p))
      chunkend == Min(nbyte, p.size - p.w)
      s1 == memcpy(p.storage, p.w, data, 0, chunkend)
      s2 == memcpy(s1, 0, data, chunkend, nbyte - chunkend)
  IN [p |-> [p EXCEPT !.storage = s2, !.w = p.w + nbyte], ret |-> nbyte]

\* write() whose second segment is copied from the start of the source
write_badwrap(p, data) ==
  LET nbyte == Min(Len(data), avail(p))
      chunkend == Min(nbyte, p.size - p.w)
      s1 == memcpy(p.storage, p.w, data, 0, chunkend)
      s2 == memcpy(s1, 0, data, 0, nbyte - chunkend)
  IN [p |-> [p EXCEPT !.storage = s2, !.w = (p.w + nbyte) % p.size],
      ret |-> nbyte]

\* write() that returns the count it was asked for
write_retreq(p, data) ==
  LET nbyte == Min(Len(data), avail(p))
      chunkend == Min(nbyte, p.size - p.w)
      s1 == memcpy(p.storage, p.w, data, 0, chunkend)
      s2 == memcpy(s1, 0, data, chunkend, nbyte - chunkend)
  IN [p |-> [p EXCEPT !.storage = s2, !.w = (p.w + nbyte) % p.size],
      ret |-> Len(data)]

write(p, data) ==
  LET nbyte == Min(Len(data), avail(p))
      chunkend == Min(nbyte, p.size - p.w)
      s1 == memcpy(p.storage, p.w, data, 0, chunkend)
      s2 == memcpy(s1, 0, data, chunkend, nbyte - chunkend)
  IN [p |-> [p EXCEPT !.storage = s2, !.w = (p.w + nbyte) % p.size],
      ret |-> nbyte]

read(p, n) ==
  LET nbyte == Min(n, len(p))
      chunkend == Min(nbyte, p.size - p.r)
  IN [p |-> [p EXCEPT !.r = (p.r + nbyte) % p.size],
      ret |-> nbyte,
      data |-> bytesAt(p.storage, p.r, chunkend)
               \o bytesAt(p.storage, 0, nbyte - chunkend)]

discard(p, n) ==
  LET nbyte == Min(n, len(p))
  IN [p |-> [p EXCEPT !.r = (p.r + nbyte) % p.size], ret |-> nbyte]

\* takeRef() that refuses bytes that end at the end of the storage
takeRef_strict(p, n) ==
  LET nbyte == Min(n, len(p))
      chunkend == Min(nbyte, p.size - p.r - 1)
  IN IF chunkend >= nbyte
       THEN [p |-> [p EXCEPT !.r = (p.r + nbyte) % p.size],
             null |-> FALSE, ref |-> bytesAt(p.storage, p.r, nbyte)]
       ELSE [p |-> p, null |-> TRUE, ref |-> <<>>]

\* ref is the referenced bytes; null says nullptr was returned
takeRef(p, n) ==
  LET nbyte == Min(n, len(p))
      chunkend == Min(nbyte, p.size - p.r)
  IN IF chunkend >= nbyte
       THEN [p |-> [p EXCEPT !.r = (p.r + nbyte) % p.size],
             null |-> FALSE, ref |-> bytesAt(p.storage, p.r, nbyte)]
       ELSE [p |-> p, null |-> TRUE, ref |-> <<>>]

\* every outcome of readFromFD(fd, n): [p, ret, errno, fd, sys]; sys lists
\* the results of the read syscalls the call made
readFromFD(p, fd, n) ==
  LET nbyte == Min(n, avail(p))
      chunkend == Min(nbyte, p.size - p.w)
      End(st, total, f, sys) ==
        [p |-> [p EXCEPT !.storage = st, !.w = (p.w + total) % p.size],
         ret |-> total, errno |-> "none", fd |-> f, sys |-> sys]
      Second(st, total, f, sys) ==
        IF nbyte > chunkend
          THEN { IF b.n < 0
                   THEN [p |-> [p EXCEPT !.storage = st], ret |-> b.n,
                         errno |-> b.errno, fd |-> b.fd,
                         sys |-> Append(sys, b.n)]
                   ELSE End(memcpy(st, 0, b.data, 0, b.n), total + b.n, b.fd,
                            Append(sys, b.n)) :
                 b \in sysread(f, nbyte - chunkend) }
          ELSE { End(st, total, f, sys) }
  IN IF chunkend > 0
       THEN UNION {
              LET st == memcpy(p.storage, p.w, a.data, 0, Max(a.n, 0))
              IN IF a.n < chunkend
                   THEN IF a.n > -1
                          THEN { End(st, a.n, a.fd, <<a.n>>) }
                          ELSE { [p |-> p, ret |-> a.n, errno |-> a.errno,
                                  fd |-> a.fd, sys |-> <<a.n>>] }
                   ELSE Second(st, a.n, a.fd, <<a.n>>) :
              a \in sysread(fd, chunkend) }
       ELSE Second(p.storage, 0, fd, <<>>)

\* every outcome of writeToFD(fd, n): [p, ret, errno, fd, sys]
writeToFD(p, fd, n) ==
  LET nbyte == Min(n, len(p))
      chunkend == Min(nbyte, p.size - p.r)
      End(total, f, sys) ==
        [p |-> [p EXCEPT !.r = (p.r + nbyte) % p.size],
         ret |-> total, errno |-> "none", fd |-> f, sys |-> sys]
      Second(total, f, sys) ==
        IF nbyte > chunkend
          THEN { IF b.n < 0
                   THEN [p |-> p, ret |-> b.n, errno |-> b.errno, fd |-> b.fd,
                         sys |-> Append(sys, b.n)]
                   ELSE End(total + b.n, b.fd, Append(sys, b.n)) :
                 b \in syswrite(f, bytesAt(p.storage, 0, nbyte - chunkend)) }
          ELSE { End(total, f, sys) }
  IN IF chunkend > 0
       THEN UNION {
              IF a.n < chunkend
                THEN IF a.n > -1
                       THEN { End(a.n, a.fd, <<a.n>>) }
                       ELSE { [p |-> p, ret |-> a.n, errno |-> a.errno,
                               fd |-> a.fd, sys |-> <<a.n>>] }
                ELSE Second(a.n, a.fd, <<a.n>>) :
              a \in syswrite(fd, bytesAt(p.storage, p.r, chunkend)) }
       ELSE Second(0, fd, <<>>)

\* ------------------------------------------------------------------------
\* Protocol messages (src/protocol.cc)
\* ------------------------------------------------------------------------
MSGT_FB_INFO == 73        \* 'I'
MSGT_FRAME_SIGNAL == 70   \* 'F'
MSGT_RESERVATION == 82    \* 'R'
MSGT_DAWNCMD == 68        \* 'D'

DAWNCMD_MSG_HEADER_SIZE == 5   \* tag + uint32
DAWNCMD_MAX == 2               \* largest command batch (scaled down)
FB_INFO_SIZE == 2              \* sizeof(FramebufferInfo) (scaled down)
RESERVATION_SIZE == 2          \* sizeof(ReservedDevice + ReservedSwapChain)

\* sizes of the engine's buffers
RBUF_SIZE == DAWNCMD_MAX + DAWNCMD_MSG_HEADER_SIZE + 1
WBUF_SIZE == Max(FB_INFO_SIZE, RESERVATION_SIZE) + 2
WRITEBUF_SIZE == DAWNCMD_MAX + DAWNCMD_MSG_HEADER_SIZE
DAWNTMP_SIZE == DAWNCMD_MAX
TMP_SIZE == Max(Max(DAWNCMD_MSG_HEADER_SIZE, FB_INFO_SIZE), RESERVATION_SIZE) + 1

NULLPTR == -1

\* a plain store of x on a little-endian host: least significant byte first
htonl_host(x) == << x % 256, (x \div 256) % 256, (x \div 65536) % 256,
                    (x \div 16777216) % 256 >>

\* htonl(x) stored at a char*: the four bytes of x, most significant first
htonl(x) == << (x \div 16777216) % 256, (x \div 65536) % 256,
               (x \div 256) % 256, x % 256 >>

\* ntohl of the four bytes b
ntohl(b) == b[1] * 16777216 + b[2] * 65536 + b[3] * 256 + b[4]

\* the DAWNCMD_MSG_HEADER_SIZE bytes encodeDawnCmdHeader writes to dst
encodeDawnCmdHeader(dawncmdlen) == <<MSGT_DAWNCMD>> \o htonl(dawncmdlen)

decodeDawnCmdHeader(src) == ntohl(SubSeq(src, 2, 5))

encodeFramebufferInfo(info) == <<MSGT_FB_INFO>> \o info
decodeFramebufferInfo(src) == SubSeq(src, 2, FB_INFO_SIZE + 1)
encodeReservation(scr) == <<MSGT_RESERVATION>> \o scr
decodeReservation(src) == SubSeq(src, 2, RESERVATION_SIZE + 1)

\* the byte sequence s is a prefix of a concatenation of whole messages:
\* "F", "I" + framebuffer info, "R" + reservation, "D" + size + size bytes
RECURSIVE WholeMsgsPrefix(_)
WholeMsgsPrefix(s) ==
  IF s = <<>> THEN TRUE
  ELSE LET tag == s[1] IN
    CASE tag = MSGT_FRAME_SIGNAL -> WholeMsgsPrefix(Drop(s, 1))
      [] tag = MSGT_FB_INFO ->
           Len(s) < FB_INFO_SIZE + 1
             \/ WholeMsgsPrefix(Drop(s, FB_INFO_SIZE + 1))
      [] tag = MSGT_RESERVATION ->
           Len(s) < RESERVATION_SIZE + 1
             \/ WholeMsgsPrefix(Drop(s, RESERVATION_SIZE + 1))
      [] tag = MSGT_DAWNCMD ->
           IF Len(s) < DAWNCMD_MSG_HEADER_SIZE
             THEN \A i \in 2..Len(s) : s[i] \in 0..255
             ELSE LET n == decodeDawnCmdHeader(s) IN
                  /\ n >= 1
                  /\ n <= DAWNCMD_MAX
                  /\ Len(s) < DAWNCMD_MSG_HEADER_SIZE + n
                       \/ WholeMsgsPrefix(Drop(s, DAWNCMD_MSG_HEADER_SIZE + n))
      [] OTHER -> FALSE

\* ------------------------------------------------------------------------
\* DawnRemoteProtocol: the engine state as one record E
\*   rbuf, wbuf      Pipe
\*   dawnCmdRLen     _dawnCmdRLen
\*   dawnout         [writebuf, flushbuf, writelen, flushlen, flushoffs]
\*   rl              _rl != nullptr
\*   io              the ev_io watcher: [events, active]
\*   sock            the socket descriptor
\*   cbs             every application callback invoked so far, in order
\*   fault           "none", or how the process ended: "abort" (a failed
\*                   assert in a build with assertions), "hang" (a loop that
\*                   never exits), "throw" (an empty std::function called),
\*                   "overflow" (a write past the end of an array)
\*   ndebug          the build has assertions compiled out
\*   asserts         the assertions reached with a false condition
\*   g               history of the outgoing batch (see NewG)
\*   hlog            what the current handler invocation parsed
\* ------------------------------------------------------------------------
NewDawnout ==
  [writebuf |-> [i \in 0..(WRITEBUF_SIZE - 1) |-> 0],
   flushbuf |-> [i \in 0..(WRITEBUF_SIZE - 1) |-> 0],
   writelen |-> DAWNCMD_MSG_HEADER_SIZE, flushlen |-> 0, flushoffs |-> 0]

\* staged: the bytes handed out by GetCmdSpace since the last swap or stop
\* nstaged: how many bytes were staged so far in total
\* batch: the staged bytes of the batch flushed last
\* bout: the bytes of that batch the socket has accepted
\* bparts: the number of writes that accepted bytes of that batch
\* bstate: "none", "draining", "done" (drained in full), "cut" (dropped by
\*         stop() or by a later swap before it was drained)
\* nctl: the number of control messages the application has sent
\* reclaim: "full" once a GetCmdSpace call of the application failed for
\*          lack of room, "swapped" once Flush() was then called with no
\*          drain in progress, "again" once the GetCmdSpace call right
\*          after that Flush() has returned a region; "none" otherwise
\* adverse: a syscall has failed with an error, hit end of stream or found
\*          nothing to read at a readable notification, or the application
\*          has called stop()
\* fd: _io.fd, the descriptor start() was given
\* closes: the number of ::close() calls made on that descriptor number
\* ctl: the bytes of the control messages a send call has put into _wbuf
\* ctlout: the bytes of _wbuf the socket has accepted
NewG == [staged |-> <<>>, nstaged |-> 0, batch |-> <<>>, bout |-> <<>>,
         bparts |-> 0, bstate |-> "none", nctl |-> 0, reclaim |-> "none",
         adverse |-> FALSE, fd |-> 3, closes |-> 0,
         ctl |-> <<>>, ctlout |-> <<>>]

fd(E) == E.g.fd

Expect(E, name, cond) ==
  IF cond \/ E.fault # "none" THEN E
  ELSE [E EXCEPT !.asserts = @ \cup {name},
                 !.fault = IF E.ndebug THEN "none" ELSE "abort"]

setNeedsWriteFlush2(E) ==
  IF E.rl
    THEN [E EXCEPT !.io = [events |-> E.io.events \cup {"WRITE"},
                           active |-> TRUE]]
    ELSE E

\* setNeedsWriteFlush() that never asks for EV_WRITE
setNeedsWriteFlush_never(E) == E

setNeedsWriteFlush(E) ==
  IF "WRITE" \notin E.io.events THEN setNeedsWriteFlush2(E) ELSE E

\* stop() that leaves the watcher registered
stop_keepwatcher(E) ==
  [E EXCEPT !.dawnout.writelen = DAWNCMD_MSG_HEADER_SIZE,
            !.dawnout.flushlen = 0,
            !.g.staged = <<>>,
            !.g.bstate = IF @ = "draining" THEN "cut" ELSE @,
            !.rl = FALSE]

stop(E) ==
  LET E1 == [E EXCEPT !.dawnout.writelen = DAWNCMD_MSG_HEADER_SIZE,
                      !.dawnout.flushlen = 0,
                      !.g.staged = <<>>,
                      !.g.bstate = IF @ = "draining" THEN "cut" ELSE @]
  IN IF E1.rl
       THEN [E1 EXCEPT !.io.active = FALSE, !.rl = FALSE]
       ELSE E1

start(E) ==
  [E EXCEPT !.rbuf = clear(@), !.wbuf = clear(@), !.rl = TRUE,
            !.io = [events |-> {"READ"}, active |-> TRUE]]

\* GetCmdSpace that lets a region end one byte past the buffer
GetCmdSpace_pastend(E, size) ==
  LET E1 == Expect(E, "GetCmdSpace:size", size <= DAWNCMD_MAX)
  IN IF E1.fault # "none" THEN [E |-> E1, ptr |-> NULLPTR]
     ELSE IF WRITEBUF_SIZE + 1 - size < E1.dawnout.writelen
       THEN [E |-> E1, ptr |-> NULLPTR]
       ELSE [E |-> [E1 EXCEPT !.dawnout.writelen = @ + size],
             ptr |-> E1.dawnout.writelen]

\* GetCmdSpace that advances writelen also when it fails
GetCmdSpace_advance(E, size) ==
  LET E1 == Expect(E, "GetCmdSpace:size", size <= DAWNCMD_MAX)
  IN IF E1.fault # "none" THEN [E |-> E1, ptr |-> NULLPTR]
     ELSE IF WRITEBUF_SIZE - size < E1.dawnout.writelen
       THEN [E |-> [E1 EXCEPT !.dawnout.writelen =
                                 Min(@ + size, WRITEBUF_SIZE)],
             ptr |-> NULLPTR]
       ELSE [E |-> [E1 EXCEPT !.dawnout.writelen = @ + size],
             ptr |-> E1.dawnout.writelen]

\* ptr is the offset in writebuf of the returned region, or NULLPTR
GetCmdSpace(E, size) ==
  LET E1 == Expect(E, "GetCmdSpace:size", size <= DAWNCMD_MAX)
  IN IF E1.fault # "none" THEN [E |-> E1, ptr |-> NULLPTR]
     ELSE IF WRITEBUF_SIZE - size < E1.dawnout.writelen
       THEN [E |-> E1, ptr |-> NULLPTR]
       ELSE [E |-> [E1 EXCEPT !.dawnout.writelen = @ + size],
             ptr |-> E1.dawnout.writelen]

\* Flush() that keeps writelen after the swap
Flush_keeplen(E) ==
  LET E1 == Expect(E, "Flush:flushlen", E.dawnout.flushlen = 0)
      d == E1.dawnout
  IN IF E1.fault # "none" THEN E1
     ELSE IF d.writelen > DAWNCMD_MSG_HEADER_SIZE
       THEN LET wb == memcpy(d.writebuf, 0,
                        encodeDawnCmdHeader(d.writelen - DAWNCMD_MSG_HEADER_SIZE),
                        0, DAWNCMD_MSG_HEADER_SIZE)
                E2 == [E1 EXCEPT !.dawnout.flushbuf = wb,
                                 !.dawnout.writebuf = d.flushbuf,
                                 !.dawnout.flushlen = d.writelen,
                                 !.dawnout.flushoffs = 0,
                                 !.g.batch = E1.g.staged,
                                 !.g.staged = <<>>,
                                 !.g.bout = <<>>,
                                 !.g.bparts = 0,
                                 !.g.bstate = "draining"]
            IN setNeedsWriteFlush(E2)
       ELSE Expect(E1, "Flush:writelen",
                   d.writelen = DAWNCMD_MSG_HEADER_SIZE)

\* Flush() that encodes the length of the whole buffer, header included
Flush_hdrlen(E) ==
  LET E1 == Expect(E, "Flush:flushlen", E.dawnout.flushlen = 0)
      d == E1.dawnout
  IN IF E1.fault # "none" THEN E1
     ELSE IF d.writelen > DAWNCMD_MSG_HEADER_SIZE
       THEN LET wb == memcpy(d.writebuf, 0,
                        encodeDawnCmdHeader(d.writelen),
                        0, DAWNCMD_MSG_HEADER_SIZE)
                E2 == [E1 EXCEPT !.dawnout.flushbuf = wb,
                                 !.dawnout.writebuf = d.flushbuf,
                                 !.dawnout.flushlen = d.writelen,
                                 !.dawnout.flushoffs = 0,
                                 !.g.batch = E1.g.staged,
                                 !.g.staged = <<>>,
                                 !.g.bout = <<>>,
                                 !.g.bparts = 0,
                                 !.g.bstate = "draining"]
                E3 == setNeedsWriteFlush(E2)
            IN [E3 EXCEPT !.dawnout.writelen = DAWNCMD_MSG_HEADER_SIZE]
       ELSE Expect(E1, "Flush:writelen",
                   d.writelen = DAWNCMD_MSG_HEADER_SIZE)

Flush(E) ==
  LET E1 == Expect(E, "Flush:flushlen", E.dawnout.flushlen = 0)
      d == E1.dawnout
  IN IF E1.fault # "none" THEN E1
     ELSE IF d.writelen > DAWNCMD_MSG_HEADER_SIZE
       THEN LET wb == memcpy(d.writebuf, 0,
                        encodeDawnCmdHeader(d.writelen - DAWNCMD_MSG_HEADER_SIZE),
                        0, DAWNCMD_MSG_HEADER_SIZE)
                E2 == [E1 EXCEPT !.dawnout.flushbuf = wb,
                                 !.dawnout.writebuf = d.flushbuf,
                                 !.dawnout.flushlen = d.writelen,
                                 !.dawnout.flushoffs = 0,
                                 !.g.batch = E1.g.staged,
                                 !.g.staged = <<>>,
                                 !.g.bout = <<>>,
                                 !.g.bparts = 0,
                                 !.g.bstate = "draining"]
                E3 == setNeedsWriteFlush(E2)
            IN [E3 EXCEPT !.dawnout.writelen = DAWNCMD_MSG_HEADER_SIZE]
       ELSE Expect(E1, "Flush:writelen",
                   d.writelen = DAWNCMD_MSG_HEADER_SIZE)


\* ------------------------------------------------------------------------
\* The application behind the engine.  A plan says what one callback does:
\* set = FALSE is a std::function left empty; stage lists the sizes it passes
\* to GetCmdSpace, filling each returned region; flush says whether it then
\* calls Flush().  The k-th byte the application ever stages has value k.
\* ------------------------------------------------------------------------
MaxStaged == 4    \* bytes the application stages in total

Plan(set, stage, flush) ==
  [set |-> set, stage |-> stage, flush |-> flush, stop |-> FALSE]

\* GetCmdSpace(size) followed by the caller filling the returned region
AppStage(E, size) ==
  LET r == GetCmdSpace(E, size)
      data == [k \in 1..size |-> E.g.nstaged + k]
  IN IF r.ptr = NULLPTR THEN r.E
     ELSE [r.E EXCEPT !.dawnout.writebuf = memcpy(@, r.ptr, data, 0, size),
                      !.g.staged = @ \o data,
                      !.g.nstaged = @ + size]

RECURSIVE AppStageAll(_, _)
AppStageAll(E, sizes) ==
  IF sizes = <<>> \/ E.fault # "none" THEN E
  ELSE IF E.g.nstaged + Head(sizes) > MaxStaged
    THEN AppStageAll(E, Tail(sizes))
    ELSE AppStageAll(AppStage(E, Head(sizes)), Tail(sizes))

HLog(E, ev, how) == [E EXCEPT !.hlog = Append(@, [ev |-> ev, how |-> how])]

\* a plan with stop = TRUE ends by calling stop()
AppRun(E, plan) ==
  LET E1 == AppStageAll(E, plan.stage)
      E2 == IF E1.fault = "none" /\ plan.flush THEN Flush(E1) ELSE E1
  IN IF E2.fault = "none" /\ plan.stop
       THEN HLog(stop(E2), "stop", 0)
       ELSE E2

\* a system call that returned n < 0 leaves its errno in the log
HLogErrno(E, n, errno) == IF n < 0 THEN HLog(E, "errno", errno) ELSE E

\* the engine invokes the std::function callback name with data; the log
\* keeps flushlen as it is when the callback returns
Callback(E, name, data, plan) ==
  IF E.fault # "none" THEN E
  ELSE IF ~plan.set THEN [E EXCEPT !.fault = "throw"]
  ELSE LET E1 == AppRun([E EXCEPT !.cbs = Append(@, [cb |-> name,
                                                      data |-> data])], plan)
       IN HLog(E1, "cb", E1.dawnout.flushlen)


\* ------------------------------------------------------------------------
\* Reading (src/protocol.cc maybeReadIncomingDawnCmd, readMsg)
\* ------------------------------------------------------------------------
maybeReadIncomingDawnCmd(E, app) ==
  LET E1 == Expect(E, "maybeRead:len>0", E.dawnCmdRLen > 0)
      E2 == Expect(E1, "maybeRead:len<=max", E.dawnCmdRLen <= DAWNCMD_MAX)
      t == takeRef(E2.rbuf, E2.dawnCmdRLen)
      rd == read(E2.rbuf, E2.dawnCmdRLen)
  IN IF E2.fault # "none" THEN [E |-> E2, ret |-> FALSE]
     ELSE IF len(E2.rbuf) < E2.dawnCmdRLen THEN [E |-> E2, ret |-> FALSE]
     ELSE IF t.null /\ E2.dawnCmdRLen > DAWNTMP_SIZE
       THEN [E |-> [E2 EXCEPT !.fault = "overflow"], ret |-> FALSE]
     ELSE LET E3 == IF t.null
                      THEN HLog([E2 EXCEPT !.rbuf = rd.p], "D", "copy")
                      ELSE HLog([E2 EXCEPT !.rbuf = t.p], "D", "ref")
              buf == IF t.null THEN rd.data ELSE t.ref
              E4 == Callback(E3, "onDawnBuffer", buf, app.dawn)
          IN [E |-> IF E4.fault # "none" THEN E4
                    ELSE [E4 EXCEPT !.dawnCmdRLen = 0],
              ret |-> TRUE]

\* case MSGT_FRAME_SIGNAL with the test of flushlen left out
frameSignal_always(E, app) ==
  LET E1 == [E EXCEPT !.rbuf = discard(@, 1).p]
  IN Callback(HLog(E1, "F", "onFrame"), "onFrame", <<>>, app.frame)

\* case MSGT_FRAME_SIGNAL
frameSignal(E, app) ==
  LET E1 == [E EXCEPT !.rbuf = discard(@, 1).p]
  IN IF E1.dawnout.flushlen = 0
       THEN Callback(HLog(E1, "F", "onFrame"), "onFrame", <<>>, app.frame)
       ELSE HLog(E1, "F", "skip")

\* default case that does not stop the connection
unexpectedMsg_nostop(E) == HLog(E, "?", "stop")

\* default case: unexpected/corrupt message data
unexpectedMsg(E) == stop(HLog(E, "?", "stop"))

\* the loop of readMsg; tmp is the local array, a sequence of TMP_SIZE bytes
RECURSIVE readMsgLoop(_, _, _)
readMsgLoop(E, tmp, app) ==
  IF E.fault # "none" THEN [E |-> E, ret |-> FALSE]
  ELSE IF ~(len(E.rbuf) > 0) THEN [E |-> E, ret |-> TRUE]
  ELSE LET tag == at(E.rbuf, 0) IN
    CASE tag = MSGT_FB_INFO ->
           LET rd == read(E.rbuf, FB_INFO_SIZE + 1)
               tmp1 == rd.data \o Drop(tmp, rd.ret)
               E1 == HLog([E EXCEPT !.rbuf = rd.p], "I", rd.ret)
           IN readMsgLoop(Callback(E1, "onFramebufferInfo",
                                   decodeFramebufferInfo(tmp1), app.fbinfo),
                          tmp1, app)
      [] tag = MSGT_RESERVATION ->
           LET rd == read(E.rbuf, RESERVATION_SIZE + 1)
               tmp1 == rd.data \o Drop(tmp, rd.ret)
               E1 == HLog([E EXCEPT !.rbuf = rd.p], "R", rd.ret)
           IN readMsgLoop(Callback(E1, "onSwapchainReservation",
                                   decodeReservation(tmp1), app.reservation),
                          tmp1, app)
      [] tag = MSGT_FRAME_SIGNAL ->
           readMsgLoop(frameSignal(E, app), tmp, app)
      [] tag = MSGT_DAWNCMD ->
           IF len(E.rbuf) >= DAWNCMD_MSG_HEADER_SIZE
             THEN LET rd == read(E.rbuf, DAWNCMD_MSG_HEADER_SIZE)
                      tmp1 == rd.data \o Drop(tmp, rd.ret)
                      E1 == [E EXCEPT !.rbuf = rd.p,
                                      !.dawnCmdRLen = decodeDawnCmdHeader(tmp1)]
                  IN readMsgLoop(maybeReadIncomingDawnCmd(
                                   HLog(E1, "H", E1.dawnCmdRLen), app).E,
                                 tmp1, app)
             \* nothing was consumed: the while loop runs again on the same
             \* buffer, for ever
             ELSE [E |-> [HLog(E, "spin", len(E.rbuf)) EXCEPT
                            !.fault = "hang"],
                   ret |-> FALSE]
      [] OTHER -> [E |-> unexpectedMsg(E), ret |-> FALSE]

\* junk is the value of tmp's bytes before anything is read into it
readMsg(E, app, junk) == readMsgLoop(E, [i \in 1..TMP_SIZE |-> junk], app)

\* ------------------------------------------------------------------------
\* doIO (src/protocol.cc): every outcome of one invocation
\* ------------------------------------------------------------------------
\* the EV_READ part: a set of [E, cont]; cont says doIO goes on
doIORead(E, app, junk) ==
  { LET n == IF rr.ret > 0 THEN 1 ELSE 0
        bad == rr.errno = "EIO" \/ (rr.sys # <<>> /\ rr.sys[1] < 1)
        E0 == HLogErrno(HLog([E EXCEPT !.rbuf = rr.p, !.sock = rr.fd,
                                       !.g.adverse = @ \/ bad],
                                  "read", rr.sys),
                        rr.ret, rr.errno)
    IN IF n <= 0
         THEN IF n < 0 /\ rr.errno = "EAGAIN"
                THEN [E |-> E0, cont |-> FALSE]
                ELSE [E |-> stop(E0), cont |-> FALSE]
         ELSE IF E0.dawnCmdRLen > 0
           THEN LET m == maybeReadIncomingDawnCmd(E0, app)
                IN [E |-> m.E, cont |-> m.E.fault = "none"]
           ELSE LET m == readMsg(E0, app, junk)
                IN [E |-> m.E, cont |-> m.ret] :
    rr \in readFromFD(E.rbuf, E.sock, cap(E.rbuf)) }

\* the end of the EV_WRITE part: drain _wbuf
drainWbuf(E) ==
  LET nbyte == len(E.wbuf)
      Tail2(E1) ==
        IF len(E1.wbuf) = 0
          THEN [E1 EXCEPT !.io = [events |-> @.events \ {"WRITE"},
                                  active |-> TRUE]]
          ELSE E1
  IN IF nbyte > 0
       THEN { LET E1 == HLogErrno(
                         HLog([E EXCEPT !.wbuf = z.p, !.sock = z.fd,
                                        !.g.adverse = @ \/ z.errno = "EIO",
                                        !.g.ctlout =
                                          @ \o Drop(z.fd.out, Len(E.sock.out))],
                              "wbuf", z.sys),
                         z.ret, z.errno)
              IN IF z.ret < 0 /\ z.errno # "EAGAIN"
                   THEN stop(E1)
                   ELSE Tail2(E1) :
              z \in writeToFD(E.wbuf, E.sock, nbyte) }
       ELSE { Tail2(E) }

\* the flush branch with flushoffs set to, not advanced by, the count
flushWrite_set(E) ==
  LET E1 == Expect(E, "doIO:flushlen>flushoffs",
                   E.dawnout.flushlen > E.dawnout.flushoffs)
      d == E1.dawnout
      length == d.flushlen - d.flushoffs
  IN IF E1.fault # "none" THEN { [E |-> E1, cont |-> FALSE] }
     ELSE IF length <= 0
       THEN { [E |-> [E1 EXCEPT !.fault = "overflow"], cont |-> FALSE] }
     ELSE { LET E2 == HLogErrno(HLog([E1 EXCEPT !.sock = a.fd],
                                     "flush", <<a.n>>),
                                a.n, a.errno)
            IN IF a.n < 1 THEN [E |-> E2, cont |-> FALSE]
               ELSE LET E3 == [E2 EXCEPT
                                 !.dawnout.flushoffs = a.n,
                                 !.g.bout = @ \o bytesAt(d.flushbuf,
                                                         d.flushoffs, a.n),
                                 !.g.bparts = @ + 1]
                    IN IF E3.dawnout.flushlen = E3.dawnout.flushoffs
                         THEN [E |-> [E3 EXCEPT !.dawnout.flushlen = 0,
                                                !.g.bstate = "done"],
                               cont |-> TRUE]
                         ELSE [E |-> Expect(E3, "doIO:flushoffs<flushlen",
                                            E3.dawnout.flushoffs
                                              < E3.dawnout.flushlen),
                               cont |-> FALSE] :
            a \in syswrite(E1.sock, bytesAt(d.flushbuf, d.flushoffs, length)) }

\* the flush branch of the EV_WRITE part: a set of [E, cont]
flushWrite(E) ==
  LET E1 == Expect(E, "doIO:flushlen>flushoffs",
                   E.dawnout.flushlen > E.dawnout.flushoffs)
      d == E1.dawnout
      length == d.flushlen - d.flushoffs
  IN IF E1.fault # "none" THEN { [E |-> E1, cont |-> FALSE] }
     ELSE IF length <= 0
       THEN { [E |-> [E1 EXCEPT !.fault = "overflow"], cont |-> FALSE] }
     ELSE { LET E2 == HLogErrno(HLog([E1 EXCEPT !.sock = a.fd],
                                     "flush", <<a.n>>),
                                a.n, a.errno)
            IN IF a.n < 1 THEN [E |-> E2, cont |-> FALSE]
               ELSE LET E3 == [E2 EXCEPT
                                 !.dawnout.flushoffs = @ + a.n,
                                 !.g.bout = @ \o bytesAt(d.flushbuf,
                                                         d.flushoffs, a.n),
                                 !.g.bparts = @ + 1]
                    IN IF E3.dawnout.flushlen = E3.dawnout.flushoffs
                         THEN [E |-> [E3 EXCEPT !.dawnout.flushlen = 0,
                                                !.g.bstate = "done"],
                               cont |-> TRUE]
                         ELSE [E |-> Expect(E3, "doIO:flushoffs<flushlen",
                                            E3.dawnout.flushoffs
                                              < E3.dawnout.flushlen),
                               cont |-> FALSE] :
            a \in syswrite(E1.sock, bytesAt(d.flushbuf, d.flushoffs, length)) }

\* the EV_WRITE part that drains _wbuf whatever is left of the batch
doIOWrite_nowait(E) ==
  IF E.dawnout.flushlen # 0
    THEN UNION { drainWbuf(f.E) : f \in flushWrite(E) }
    ELSE drainWbuf(E)

doIOWrite(E) ==
  IF E.dawnout.flushlen # 0
    THEN UNION { IF f.cont THEN drainWbuf(f.E) ELSE { f.E } :
                 f \in flushWrite(E) }
    ELSE drainWbuf(E)

\* revents is a subset of {"READ", "WRITE"}
doIO(E, revents, app, junk) ==
  LET afterRead == IF "READ" \in revents
                     THEN doIORead(E, app, junk)
                     ELSE { [E |-> E, cont |-> TRUE] }
  IN UNION { IF r.cont /\ "WRITE" \in revents
               THEN doIOWrite(r.E)
               ELSE { r.E } :
             r \in afterRead }


\* ------------------------------------------------------------------------
\* Control messages (src/protocol.cc sendFrameSignal .. sendReservation)
\* ------------------------------------------------------------------------
\* Pipe::writec(c): write of the one byte c
writec(p, c) == write(p, <<c>>)

sendFrameSignal(E) ==
  IF avail(E.wbuf) < 1 THEN [E |-> E, ret |-> FALSE]
  ELSE LET w == writec(E.wbuf, MSGT_FRAME_SIGNAL)
       IN IF w.ret # 1 THEN [E |-> [E EXCEPT !.wbuf = w.p], ret |-> FALSE]
          ELSE [E |-> setNeedsWriteFlush([E EXCEPT !.wbuf = w.p]),
                ret |-> TRUE]

\* sendFramebufferInfo that does not look at avail() first
sendFramebufferInfo_partial(E, info) ==
  [E |-> setNeedsWriteFlush(
           [E EXCEPT !.wbuf = write(@, encodeFramebufferInfo(info)).p]),
   ret |-> TRUE]

sendFramebufferInfo(E, info) ==
  IF avail(E.wbuf) < FB_INFO_SIZE + 1 THEN [E |-> E, ret |-> FALSE]
  ELSE [E |-> setNeedsWriteFlush(
                [E EXCEPT !.wbuf = write(@, encodeFramebufferInfo(info)).p]),
        ret |-> TRUE]

sendReservation(E, scr) ==
  IF avail(E.wbuf) < RESERVATION_SIZE + 1 THEN [E |-> E, ret |-> FALSE]
  ELSE [E |-> setNeedsWriteFlush(
                [E EXCEPT !.wbuf = write(@, encodeReservation(scr)).p]),
        ret |-> TRUE]

\* ------------------------------------------------------------------------
\* The state of one engine and its surroundings
\* ------------------------------------------------------------------------
VARIABLES
  rbuf, wbuf, dawnCmdRLen, dawnout, rl, io, sock,
  cbs, fault, ndebug, asserts, g, hlog,
  sent,     \* the messages the peer has written to the socket, in order
  op        \* the last operation: [name, arg, ret]

evars == <<rbuf, wbuf, dawnCmdRLen, dawnout, rl, io, sock,
           cbs, fault, ndebug, asserts, g, hlog, sent, op>>

\* ---- the server process (src/server.cc) ----
VARIABLES
  conns,      \* every Conn made so far, in order: [id, E, deleted]; E is the
              \* state of its engine
  conn0,      \* the index in conns of the Conn conn0 points to, 0 for nullptr
  connIdGen   \* the static counter of onServerIO

svars == <<conns, conn0, connIdGen>>

vars == <<pipe, pfd, pin, pout, pop, pnum, rbuf, wbuf, dawnCmdRLen, dawnout, rl, io,
          sock, cbs, fault, ndebug, asserts, g, hlog, sent, op,
          conns, conn0, connIdGen>>

Cur ==
  [rbuf |-> rbuf, wbuf |-> wbuf, dawnCmdRLen |-> dawnCmdRLen,
   dawnout |-> dawnout, rl |-> rl, io |-> io, sock |-> sock, cbs |-> cbs,
   fault |-> fault, ndebug |-> ndebug, asserts |-> asserts, g |-> g,
   hlog |-> <<>>]

Commit(E) ==
  /\ rbuf' = E.rbuf
  /\ wbuf' = E.wbuf
  /\ dawnCmdRLen' = E.dawnCmdRLen
  /\ dawnout' = E.dawnout
  /\ rl' = E.rl
  /\ io' = E.io
  /\ sock' = E.sock
  /\ cbs' = E.cbs
  /\ fault' = E.fault
  /\ ndebug' = E.ndebug
  /\ asserts' = E.asserts
  /\ g' = E.g
  /\ hlog' = E.hlog

Op(name, arg, ret) == [name |-> name, arg |-> arg, ret |-> ret]

\* bounds on what the surroundings do
MaxPeerMsgs == 2    \* messages the peer sends
MaxCtl == 1         \* control messages the application sends
MaxSockOut == 12    \* no write handler runs once the socket took more bytes
MaxClose == 2       \* calls of Conn::close()
MaxRender == 2      \* frames the application renders outside of callbacks
MaxQueued == 3      \* send calls of an application that fills _wbuf
JunkBytes == {0, 70}

FbInfo == [i \in 1..FB_INFO_SIZE |-> 5]
Reservation == [i \in 1..RESERVATION_SIZE |-> 6]

\* a well-formed CommandBatch message with payload p, Len(p) < 256
DawnMsg(p) == <<68, 0, 0, 0, Len(p)>> \o p

\* the payloads the peer sends: 70, 1, 70, ... of every length, and 1
DawnPayloads ==
  { [k \in 1..n |-> IF k % 2 = 1 THEN 70 ELSE 1] : n \in 1..DAWNCMD_MAX }
  \cup { <<1>> }

DawnMsgs == { DawnMsg(p) : p \in DawnPayloads }

PeerMsgs ==
  DawnMsgs \cup
  { <<70>>, <<73>> \o FbInfo, <<82>> \o Reservation, <<0>>,
    <<68, 0, 0, 0, 0>>, <<68, 0, 0, 0, DAWNCMD_MAX + 1>> }

\* a peer that announces a batch larger than the inbound buffer and goes on
\* sending its body
OversizeMsgs ==
  { <<68, 0, 0, 0, 255>>, [i \in 1..(RBUF_SIZE - 1) |-> 1] }

\* what a client sends to the server
ClientMsgs == { DawnMsg(<<1>>), <<82>> \o Reservation }

NoOp == Plan(TRUE, <<>>, FALSE)
Idle == [frame |-> NoOp, dawn |-> NoOp, fbinfo |-> NoOp, reservation |-> NoOp]
Plans == { NoOp, Plan(TRUE, <<1>>, TRUE) }

\* a callback that does nothing but stop the connection
StopPlan == [NoOp EXCEPT !.stop = TRUE]

\* an application whose onFrame may stop the connection
StopApps == { Idle, [Idle EXCEPT !.frame = StopPlan] }

\* what a server sends to the client
ServerMsgs == { <<70>>, <<73>> \o FbInfo, DawnMsg(<<1>>) }

\* the client (src/client.cc): onFrame renders a frame or not, the other
\* callbacks call nothing of the engine
ClientApps == { [Idle EXCEPT !.frame = pf] : pf \in Plans }

\* the server's Conn (src/server.cc): onDawnBuffer runs HandleCommands, which
\* may stage reply bytes, and then Flush(); onSwapchainReservation calls
\* nothing of the engine; onFrame and onFramebufferInfo are not set
ServerApps ==
  { [frame |-> Plan(FALSE, <<>>, FALSE),
     dawn |-> Plan(TRUE, s, TRUE),
     fbinfo |-> Plan(FALSE, <<>>, FALSE),
     reservation |-> NoOp] : s \in {<<>>, <<1>>} }

EInit ==
  /\ rbuf = NewPipe(RBUF_SIZE)
  /\ wbuf = NewPipe(WBUF_SIZE)
  /\ dawnCmdRLen = 0
  /\ dawnout = NewDawnout
  /\ rl = TRUE
  /\ io = [events |-> {"READ"}, active |-> TRUE]
  /\ sock = NewFD
  /\ cbs = <<>>
  /\ fault = "none"
  /\ ndebug \in BOOLEAN
  /\ asserts = {}
  /\ g = NewG
  /\ hlog = <<>>
  /\ sent = <<>>
  /\ op = Op("start", <<>>, TRUE)

Alive == fault = "none"

\* ---- the peer ----
PeerSend(Msgs) ==
  \E m \in Msgs :
    /\ Alive /\ ~sock.eof
    /\ Len(sent) < MaxPeerMsgs
    /\ sent' = Append(sent, m)
    /\ sock' = [sock EXCEPT !.in = @ \o m]
    /\ hlog' = <<>>
    /\ op' = Op("peerSend", m, TRUE)
    /\ UNCHANGED <<rbuf, wbuf, dawnCmdRLen, dawnout, rl, io, cbs, fault,
                   ndebug, asserts, g>>

PeerClose ==
  /\ Alive /\ ~sock.eof
  /\ sock' = [sock EXCEPT !.eof = TRUE]
  /\ hlog' = <<>>
  /\ op' = Op("peerClose", <<>>, TRUE)
  /\ UNCHANGED <<rbuf, wbuf, dawnCmdRLen, dawnout, rl, io, cbs, fault,
                 ndebug, asserts, g, sent>>

\* ---- the reactor calls DawnRemoteProtocol_doIO ----
DoIO(AppSet) ==
  \E revents \in (SUBSET io.events) \ {{}}, app \in AppSet, junk \in JunkBytes :
    /\ Alive /\ io.active
    /\ Len(sock.out) <= MaxSockOut
    /\ \E E1 \in doIO(Cur, revents, app, junk) :
         /\ Commit(E1)
         /\ op' = Op("doIO", revents, TRUE)
    /\ UNCHANGED sent

\* ---- the application calls the engine outside of callbacks ----
ApiGetCmdSpace ==
  \E size \in 1..DAWNCMD_MAX :
    LET ptr == GetCmdSpace(Cur, size).ptr
        E1 == AppStage(Cur, size)
        next == IF ptr = NULLPTR THEN "full"
                ELSE IF g.reclaim = "swapped" THEN "again"
                ELSE IF g.reclaim = "full" THEN "full"
                ELSE "none" IN
    /\ Alive
    /\ g.nstaged + size <= MaxStaged
    /\ Commit([E1 EXCEPT !.g.reclaim = next])
    /\ op' = Op("GetCmdSpace", size, ptr)
    /\ UNCHANGED sent

ApiFlush ==
  LET next == IF g.reclaim = "full" /\ dawnout.flushlen = 0
                THEN "swapped" ELSE "none" IN
  /\ Alive
  /\ Commit([Flush(Cur) EXCEPT !.g.reclaim = next])
  /\ op' = Op("Flush", <<>>, TRUE)
  /\ UNCHANGED sent

ApiStop ==
  /\ Alive
  /\ Commit(stop([Cur EXCEPT !.g.adverse = TRUE]))
  /\ op' = Op("stop", <<>>, TRUE)
  /\ UNCHANGED sent

\* the application renders a frame outside of callbacks: it stages one
\* command byte and calls Flush() (src/client2.cc)
AppRender ==
  /\ Alive
  /\ g.nstaged < MaxRender
  /\ Commit(AppRun(Cur, Plan(TRUE, <<1>>, TRUE)))
  /\ op' = Op("render", <<>>, TRUE)
  /\ UNCHANGED sent

\* GetCmdSpace(1), the region filled by the caller
AppStageOne ==
  /\ Alive
  /\ g.nstaged < MaxRender
  /\ Commit(AppStage(Cur, 1))
  /\ op' = Op("GetCmdSpace", 1, GetCmdSpace(Cur, 1).ptr)
  /\ UNCHANGED sent

\* Conn::close() (src/server.cc)
ConnClose ==
  LET E1 == stop(Cur)
      E2 == IF fd(E1) # -1 THEN [E1 EXCEPT !.g.closes = @ + 1] ELSE E1 IN
  /\ Alive
  /\ g.closes < MaxClose
  /\ Commit(E2)
  /\ op' = Op("close", <<>>, TRUE)
  /\ UNCHANGED sent

ApiStart ==
  /\ Alive /\ ~rl
  /\ Commit(start(Cur))
  /\ op' = Op("start", <<>>, TRUE)
  /\ UNCHANGED sent

\* the send calls, at most max of them over the life of the engine
SendFrameSignalUpTo(max) ==
  LET r == sendFrameSignal(Cur) IN
  /\ Alive /\ g.nctl < max
  /\ Commit([r.E EXCEPT !.g.nctl = @ + 1,
                        !.g.ctl = IF r.ret THEN @ \o <<MSGT_FRAME_SIGNAL>>
                                  ELSE @])
  /\ op' = Op("sendFrameSignal", <<>>, r.ret)
  /\ UNCHANGED sent

SendFramebufferInfoUpTo(max) ==
  LET r == sendFramebufferInfo(Cur, FbInfo) IN
  /\ Alive /\ g.nctl < max
  /\ Commit([r.E EXCEPT !.g.nctl = @ + 1,
                        !.g.ctl = IF r.ret THEN @ \o encodeFramebufferInfo(FbInfo)
                                  ELSE @])
  /\ op' = Op("sendFramebufferInfo", <<>>, r.ret)
  /\ UNCHANGED sent

SendReservationUpTo(max) ==
  LET r == sendReservation(Cur, Reservation) IN
  /\ Alive /\ g.nctl < max
  /\ Commit([r.E EXCEPT !.g.nctl = @ + 1,
                        !.g.ctl = IF r.ret THEN @ \o encodeReservation(Reservation)
                                  ELSE @])
  /\ op' = Op("sendReservation", <<>>, r.ret)
  /\ UNCHANGED sent

ApiSendFrameSignal == SendFrameSignalUpTo(MaxCtl)
ApiSendFramebufferInfo == SendFramebufferInfoUpTo(MaxCtl)
ApiSendReservation == SendReservationUpTo(MaxCtl)

\* the reactor reports the socket writable and every write(2) of the handler
\* accepts at least one byte
DoIOWritable ==
  \E junk \in JunkBytes :
    /\ Alive /\ io.active /\ "WRITE" \in io.events
    /\ \E E1 \in doIO(Cur, {"WRITE"}, Idle, junk) :
         /\ \A i \in 1..Len(E1.hlog) : E1.hlog[i].ev # "errno"
         /\ Commit(E1)
         /\ op' = Op("doIO", {"WRITE"}, TRUE)
    /\ UNCHANGED sent

\* the application renders a frame once the previous batch has drained
AppRenderIdle ==
  /\ dawnout.flushlen = 0
  /\ AppRender

\* ---- the server process: accept, frame timer, the connections' I/O ----
MaxAccepts == 2     \* clients the server accepts
MaxTicks == 2       \* times the frame timer fires

\* no client has connected yet
ServerInit ==
  /\ conns = <<>>
  /\ conn0 = 0
  /\ connIdGen = 0

\* the engine of a Conn that has just been constructed, before start()
NewEngine(fdnum) ==
  [rbuf |-> NewPipe(RBUF_SIZE), wbuf |-> NewPipe(WBUF_SIZE),
   dawnCmdRLen |-> 0, dawnout |-> NewDawnout, rl |-> FALSE,
   io |-> [events |-> {}, active |-> FALSE], sock |-> NewFD, cbs |-> <<>>,
   fault |-> "none", ndebug |-> ndebug, asserts |-> {},
   g |-> [NewG EXCEPT !.fd = fdnum], hlog |-> <<>>]

\* DawnRemoteProtocol::stopped()
stopped(E) == ~E.rl

\* Conn::close() that closes the descriptor and leaves the engine running
Conn_close_nostop(E) ==
  IF fd(E) # -1 THEN [E EXCEPT !.g.closes = @ + 1] ELSE E

\* Conn::close()
Conn_close(E) ==
  LET E1 == stop(E)
  IN IF fd(E1) # -1 THEN [E1 EXCEPT !.g.closes = @ + 1] ELSE E1

\* Conn::sendFramebufferInfo()
Conn_sendFramebufferInfo(E) ==
  IF stopped(E) THEN [E |-> E, ret |-> FALSE]
  ELSE sendFramebufferInfo(E, FbInfo)

\* Conn::sendFrameSignal()
Conn_sendFrameSignal(E) ==
  IF stopped(E) THEN [E |-> Conn_close(E), ret |-> FALSE]
  ELSE LET r == sendFrameSignal(E)
       IN IF ~r.ret THEN [E |-> Conn_close(r.E), ret |-> FALSE]
          ELSE [E |-> r.E, ret |-> TRUE]

\* what the server actions leave alone
ServerKeeps ==
  UNCHANGED <<rbuf, wbuf, dawnCmdRLen, dawnout, rl, io, sock, cbs, fault,
              ndebug, asserts, g, hlog, sent>>

\* onServerIO with a connection waiting: accept() returned a descriptor
onServerIO ==
  LET old == IF conn0 # 0
               THEN [conns EXCEPT ![conn0].E = Conn_close(@)]
               ELSE conns
      fresh == start(NewEngine(4 + Len(conns)))
      c == [id |-> connIdGen, E |-> Conn_sendFramebufferInfo(fresh).E,
            deleted |-> FALSE] IN
  /\ Len(conns) < MaxAccepts
  /\ conns' = Append(old, c)
  /\ conn0' = Len(conns) + 1
  /\ connIdGen' = connIdGen + 1
  /\ op' = Op("onServerIO", conn0, TRUE)
  /\ ServerKeeps

\* the number of times the frame timer has called Conn::sendFrameSignal
RECURSIVE Ticks(_)
Ticks(cs) == IF cs = <<>> THEN 0 ELSE Head(cs).E.g.nctl + Ticks(Tail(cs))

\* onFrameTimer
onFrameTimer ==
  LET r == Conn_sendFrameSignal(conns[conn0].E) IN
  /\ Ticks(conns) < MaxTicks
  /\ IF conn0 # 0
       THEN /\ conns' = [conns EXCEPT
                          ![conn0].E = [r.E EXCEPT !.g.nctl = @ + 1],
                          ![conn0].deleted = ~r.ret]
            /\ conn0' = IF r.ret THEN conn0 ELSE 0
            /\ op' = Op("onFrameTimer", conn0, r.ret)
       ELSE /\ UNCHANGED <<conns, conn0>>
            /\ op' = Op("onFrameTimer", 0, TRUE)
  /\ UNCHANGED connIdGen
  /\ ServerKeeps

\* the client takes the bytes the server wrote to the socket (the records of
\* what was written are not kept for the server's connections)
Received(E) ==
  [E EXCEPT !.hlog = <<>>, !.sock.out = <<>>, !.g.ctlout = <<>>,
            !.g.bout = <<>>]

\* the reactor calls the handler of a connection whose watcher is registered
ConnDoIO ==
  \E i \in 1..Len(conns) :
    \E revents \in (SUBSET conns[i].E.io.events) \ {{}} :
      /\ conns[i].E.io.active
      /\ conns[i].E.fault = "none"
      /\ \E E1 \in doIO(conns[i].E, revents,
                         CHOOSE app \in ServerApps : TRUE, 0) :
           conns' = [conns EXCEPT ![i].E = Received(E1)]
      /\ op' = Op("connDoIO", i, revents)
      /\ UNCHANGED <<conn0, connIdGen>>
      /\ ServerKeeps

\* the client of a connection goes away
ConnPeerClose ==
  \E i \in 1..Len(conns) :
    /\ ~conns[i].E.sock.eof
    /\ conns[i].E.g.closes = 0
    /\ conns' = [conns EXCEPT ![i].E.sock.eof = TRUE]
    /\ op' = Op("connPeerClose", i, TRUE)
    /\ UNCHANGED <<conn0, connIdGen>>
    /\ ServerKeeps

\* ---- the batch header codec on its own ----
\* the lengths tried: every combination of these bytes (the top byte stays
\* below 128, the largest the checker's integers hold)
HeaderTopBytes == {0, 1, 127}
HeaderBytes == {0, 1, 128, 255}
HeaderLens ==
  { b1 * 16777216 + b2 * 65536 + b3 * 256 + b4 :
      b1 \in HeaderTopBytes, b2 \in HeaderBytes, b3 \in HeaderBytes,
      b4 \in HeaderBytes }

\* Flush() encodes the header of a batch of op.arg bytes
CodecEncode ==
  /\ op.name = "dawncmdlen"
  /\ op' = Op("encodeDawnCmdHeader", op.arg, encodeDawnCmdHeader(op.arg))
  /\ UNCHANGED <<rbuf, wbuf, dawnCmdRLen, dawnout, rl, io, sock, cbs, fault,
                 ndebug, asserts, g, hlog, sent>>

\* readMsg() decodes the header bytes the encoder produced
CodecDecode ==
  /\ op.name = "encodeDawnCmdHeader"
  /\ op' = Op("decodeDawnCmdHeader", op.ret, decodeDawnCmdHeader(op.ret))
  /\ UNCHANGED <<rbuf, wbuf, dawnCmdRLen, dawnout, rl, io, sock, cbs, fault,
                 ndebug, asserts, g, hlog, sent>>

\* ------------------------------------------------------------------------
\* The Pipe on its own: any sequence of its operations (src/pipe.cc PipeTest)
\* ------------------------------------------------------------------------
\* step counts how far the calls so far follow the sequence: on an empty
\* pipe write cap() bytes, read cap() - 1, write 2, read everything (kept
\* for numbered bytes only)
PipeOp(name, n, ret, null) ==
  [name |-> name, n |-> n, ret |-> ret, null |-> null, step |-> 0]

WrapStep(name, n) ==
  IF ~pnum THEN 0
  ELSE IF name = "write" /\ pop.step = 2 /\ n = 2 THEN 3
  ELSE IF name = "write" /\ len(pipe) = 0 /\ n = cap(pipe) THEN 1
  ELSE IF name = "read" /\ pop.step = 1 /\ n = cap(pipe) - 1 THEN 2
  ELSE IF name = "read" /\ pop.step = 3 /\ n >= len(pipe) THEN 4
  ELSE 0

\* the bytes offered to the pipe: numbered in the order they are made, or
\* all alike
FreshBytes(n) ==
  [k \in 1..n |-> IF pnum THEN Len(pin) + Len(pfd.in) + k ELSE 1]

PipeInit ==
  /\ pipe = NewPipe(PIPE_SIZE)
  /\ pfd = NewFD
  /\ pin = <<>>
  /\ pout = <<>>
  /\ pop = PipeOp("init", 0, 0, FALSE)
  /\ pnum \in BOOLEAN

PipeWrite ==
  \E n \in 0..(PIPE_SIZE + 1) :
    LET data == FreshBytes(n)
        res == write(pipe, data) IN
    /\ Len(pin) + Len(pfd.in) + n <= MaxPipeBytes
    /\ pipe' = res.p
    /\ pin' = pin \o Take(data, res.ret)
    /\ pop' = [PipeOp("write", n, res.ret, FALSE) EXCEPT
                 !.step = WrapStep("write", n)]
    /\ UNCHANGED <<pfd, pout, pnum>>

PipeRead ==
  \E n \in 0..PIPE_SIZE :
    LET res == read(pipe, n) IN
    /\ pipe' = res.p
    /\ pout' = pout \o res.data
    /\ pop' = [PipeOp("read", n, res.ret, FALSE) EXCEPT
                 !.step = WrapStep("read", n)]
    /\ UNCHANGED <<pfd, pin, pnum>>

PipeDiscard ==
  \E n \in 0..PIPE_SIZE :
    LET res == discard(pipe, n) IN
    /\ pipe' = res.p
    /\ pout' = pout \o read(pipe, n).data
    /\ pop' = PipeOp("discard", n, res.ret, FALSE)
    /\ UNCHANGED <<pfd, pin, pnum>>

PipeTakeRef ==
  \E n \in 0..PIPE_SIZE :
    LET res == takeRef(pipe, n) IN
    /\ pipe' = res.p
    /\ pout' = pout \o res.ref
    /\ pop' = PipeOp("takeRef", n, Len(res.ref), res.null)
    /\ UNCHANGED <<pfd, pin, pnum>>

\* clear() drops whatever is buffered
PipeClear ==
  /\ pipe' = clear(pipe)
  /\ pout' = pout \o read(pipe, len(pipe)).data
  /\ pop' = PipeOp("clear", 0, 0, FALSE)
  /\ UNCHANGED <<pfd, pin, pnum>>

\* at(index) looks at a byte and leaves the pipe as it is
PipeAt ==
  \E index \in 0..(PIPE_SIZE - 1) :
    /\ pop' = PipeOp("at", index, at(pipe, index), FALSE)
    /\ UNCHANGED <<pipe, pfd, pin, pout, pnum>>

\* the other end of the descriptor writes data, or closes
PipePeerWrite ==
  \E n \in 1..2 :
    /\ ~pfd.eof
    /\ Len(pin) + Len(pfd.in) + n <= MaxPipeBytes
    /\ pfd' = [pfd EXCEPT !.in = pfd.in \o FreshBytes(n)]
    /\ pop' = PipeOp("peerWrite", n, 0, FALSE)
    /\ UNCHANGED <<pipe, pin, pout, pnum>>

PipePeerClose ==
  /\ ~pfd.eof
  /\ pfd' = [pfd EXCEPT !.eof = TRUE]
  /\ pop' = PipeOp("peerClose", 0, 0, FALSE)
  /\ UNCHANGED <<pipe, pin, pout, pnum>>

PipeReadFromFD ==
  \E n \in 0..PIPE_SIZE :
    \E res \in readFromFD(pipe, pfd, n) :
      /\ pipe' = res.p
      /\ pfd' = res.fd
      /\ pin' = pin \o Take(pfd.in, Len(pfd.in) - Len(res.fd.in))
      /\ pop' = PipeOp("readFromFD", n, res.ret, FALSE)
      /\ UNCHANGED <<pout, pnum>>

PipeWriteToFD ==
  \E n \in 0..PIPE_SIZE :
    \E res \in writeToFD(pipe, pfd, n) :
      /\ Len(pout) < MaxPipeBytes
      /\ pipe' = res.p
      /\ pfd' = [res.fd EXCEPT !.out = <<>>]
      /\ pout' = pout \o res.fd.out
      /\ pop' = PipeOp("writeToFD", n, res.ret, FALSE)
      /\ UNCHANGED <<pin, pnum>>

\* ------------------------------------------------------------------------
\* Specifications
\* ------------------------------------------------------------------------
\* the inbound path: a peer that sends any messages, an application whose
\* callbacks call nothing of the engine
Init == EInit /\ PipeInit /\ pnum = FALSE /\ ServerInit

ReadNext ==
  /\ \/ PeerSend(PeerMsgs)
     \/ PeerClose
     \/ DoIO({Idle})
  /\ UNCHANGED <<pvars, svars>>

ReadSpec == Init /\ [][ReadNext]_vars

\* the client's connection (src/client.cc): the server sends frame signals,
\* framebuffer info and command batches; onFrame may render a frame, which
\* stages commands and flushes
ClientNext ==
  /\ \/ PeerSend(ServerMsgs)
     \/ DoIO(ClientApps)
  /\ UNCHANGED <<pvars, svars>>

ClientSpec == Init /\ [][ClientNext]_vars

\* the outbound path: an application that calls the engine at any time, a
\* peer that sends nothing
WriteNext ==
  /\ \/ DoIO({Idle})
     \/ ApiGetCmdSpace
     \/ ApiFlush
     \/ ApiStop
  /\ UNCHANGED <<pvars, svars>>

WriteSpec == Init /\ [][WriteNext]_vars

\* the server's connection (src/server.cc Conn): the client sends command
\* batches and reservations
ServerNext ==
  /\ \/ PeerSend(ClientMsgs)
     \/ PeerClose
     \/ DoIO(ServerApps)
  /\ UNCHANGED <<pvars, svars>>

ServerSpec == Init /\ [][ServerNext]_vars

\* the server's connection and its teardown by Conn::close(), which the
\* server calls when a newer client connects, when a frame signal cannot be
\* sent and at exit
ConnNext ==
  /\ \/ PeerSend(ClientMsgs)
     \/ PeerClose
     \/ DoIO(ServerApps)
     \/ ConnClose
  /\ UNCHANGED <<pvars, svars>>

ConnSpec == Init /\ [][ConnNext]_vars

\* teardown: the connection is stopped by a handler (end of stream, failed
\* read, unknown tag), by the application calling stop(), or by Conn::close()
TeardownMsgs == { <<82>> \o Reservation, <<0>> }

TeardownNext ==
  /\ \/ PeerSend(TeardownMsgs)
     \/ PeerClose
     \/ DoIO({Idle})
     \/ ApiStop
     \/ ConnClose
  /\ UNCHANGED <<pvars, svars>>

TeardownSpec == Init /\ [][TeardownNext]_vars

\* a client whose onFrame callback may call stop()
StopCbNext ==
  /\ \/ PeerSend(ServerMsgs)
     \/ DoIO(StopApps)
  /\ UNCHANGED <<pvars, svars>>

StopCbSpec == Init /\ [][StopCbNext]_vars

\* Flush() on its own: an application that stages single command bytes and
\* flushes at any time, a peer that sends nothing
FlushNext ==
  /\ \/ DoIO({Idle})
     \/ AppStageOne
     \/ ApiFlush
  /\ UNCHANGED <<pvars, svars>>

FlushSpec == Init /\ [][FlushNext]_vars

\* flow control: an application that stages and flushes command batches and
\* sends frame signals, a peer that sends nothing
FlowNext ==
  /\ \/ DoIO({Idle})
     \/ AppRender
     \/ ApiSendFrameSignal
  /\ UNCHANGED <<pvars, svars>>

FlowSpec == Init /\ [][FlowNext]_vars

\* the batch header codec: a length is encoded, the header decoded again
CodecInit ==
  /\ PipeInit /\ pnum = FALSE /\ ServerInit
  /\ rbuf = NewPipe(RBUF_SIZE)
  /\ wbuf = NewPipe(WBUF_SIZE)
  /\ dawnCmdRLen = 0
  /\ dawnout = NewDawnout
  /\ rl = TRUE
  /\ io = [events |-> {"READ"}, active |-> TRUE]
  /\ sock = NewFD
  /\ cbs = <<>>
  /\ fault = "none"
  /\ ndebug = FALSE
  /\ asserts = {}
  /\ g = NewG
  /\ hlog = <<>>
  /\ sent = <<>>
  /\ \E n \in HeaderLens : op = Op("dawncmdlen", n, <<>>)

CodecNext ==
  /\ \/ CodecEncode
     \/ CodecDecode
  /\ UNCHANGED <<pvars, svars>>

CodecSpec == CodecInit /\ [][CodecNext]_vars

\* the inbound path with a peer whose batch does not fit the inbound buffer
OversizeNext ==
  /\ \/ PeerSend(OversizeMsgs)
     \/ DoIO({Idle})
  /\ UNCHANGED <<pvars, svars>>

OversizeSpec == Init /\ [][OversizeNext]_vars

\* an engine that is stopped and started again: the peer sends what a client
\* sends, the owner calls stop() and start() at any time
RestartNext ==
  /\ \/ PeerSend(ClientMsgs)
     \/ DoIO({Idle})
     \/ ApiStop
     \/ ApiStart
  /\ UNCHANGED <<pvars, svars>>

RestartSpec == Init /\ [][RestartNext]_vars

\* control messages: an application that sends any of the three kinds until
\* _wbuf is full, and may stop the engine; a peer that sends nothing
SendNext ==
  /\ \/ SendFrameSignalUpTo(MaxQueued)
     \/ SendFramebufferInfoUpTo(MaxQueued)
     \/ SendReservationUpTo(MaxQueued)
     \/ DoIO({Idle})
     \/ ApiStop
  /\ UNCHANGED <<pvars, svars>>

SendSpec == Init /\ [][SendNext]_vars

\* the server process: clients come and go, the frame timer fires
LifecycleNext ==
  /\ \/ onServerIO
     \/ onFrameTimer
     \/ ConnDoIO
     \/ ConnPeerClose
  /\ UNCHANGED pvars

LifecycleSpec == Init /\ [][LifecycleNext]_vars

\* the accumulator on its own: GetCmdSpace, Flush, stop and start in any
\* order, no handler runs
AccumNext ==
  /\ \/ ApiGetCmdSpace
     \/ ApiFlush
     \/ ApiStop
     \/ ApiStart
  /\ UNCHANGED <<pvars, svars>>

AccumSpec == Init /\ [][AccumNext]_vars

\* the drain under a fair reactor: the socket is writable again and again
\* and no write fails; the application renders only between drains and
\* sends framebuffer info at any time; the peer sends nothing
DrainLiveNext ==
  /\ \/ DoIOWritable
     \/ AppRenderIdle
     \/ ApiSendFramebufferInfo
  /\ UNCHANGED <<pvars, svars>>

DrainLiveSpec ==
  Init /\ [][DrainLiveNext]_vars /\ WF_vars(DoIOWritable /\ UNCHANGED <<pvars, svars>>)

\* the Pipe on its own, every operation
PipeSpecInit ==
  PipeInit /\ EInit /\ ndebug = FALSE /\ pnum = FALSE /\ ServerInit

PipeNext ==
  /\ \/ PipeWrite
     \/ PipeRead
     \/ PipeDiscard
     \/ PipeTakeRef
     \/ PipeClear
     \/ PipePeerWrite
     \/ PipePeerClose
     \/ PipeReadFromFD
     \/ PipeWriteToFD
  /\ UNCHANGED <<evars, svars>>

PipeSpec == PipeSpecInit /\ [][PipeNext]_vars

\* the Pipe on its own, write() and read() only, numbered bytes
PipeRWInit ==
  PipeInit /\ EInit /\ ndebug = FALSE /\ pnum = TRUE /\ ServerInit

PipeRWNext ==
  /\ \/ PipeWrite
     \/ PipeRead
  /\ UNCHANGED <<evars, svars>>

PipeRWSpec == PipeRWInit /\ [][PipeRWNext]_vars

\* the Pipe on its own, write(), read() and takeRef(), numbered bytes
PipeRefNext ==
  /\ \/ PipeWrite
     \/ PipeRead
     \/ PipeTakeRef
  /\ UNCHANGED <<evars, svars>>

PipeRefSpec == PipeRWInit /\ [][PipeRefNext]_vars

\* the Pipe sending to a descriptor: write() and writeToFD(), numbered bytes
PipeOutNext ==
  /\ \/ PipeWrite
     \/ PipeWriteToFD
  /\ UNCHANGED <<evars, svars>>

PipeOutSpec == PipeRWInit /\ [][PipeOutNext]_vars

\* the Pipe receiving from a descriptor: readFromFD() and read(), numbered
\* bytes
PipeInNext ==
  /\ \/ PipePeerWrite
     \/ PipePeerClose
     \/ PipeReadFromFD
     \/ PipeRead
  /\ UNCHANGED <<evars, svars>>

PipeInSpec == PipeRWInit /\ [][PipeInNext]_vars

\* the Pipe looked into: write(), read() and at(), numbered bytes
PipeAtNext ==
  /\ \/ PipeWrite
     \/ PipeRead
     \/ PipeAt
  /\ UNCHANGED <<evars, svars>>

PipeAtSpec == PipeRWInit /\ [][PipeAtNext]_vars

\* ------------------------------------------------------------------------
\* Properties
\* ------------------------------------------------------------------------
\* C1: one well-formed CommandBatch message, delivered in whatever pieces to
\* an engine whose descriptor reports no error and no end of stream, leaves
\* the engine running, invokes no callback other than onDawnBuffer, invokes
\* that one at most once, with the payload bytes in wire order, and has
\* invoked it by the time every byte of the message was read
SplitBatchDelivered ==
  (Len(sent) = 1 /\ sent[1] \in DawnMsgs /\ ~g.adverse /\ ~sock.eof) =>
    LET once == << [cb |-> "onDawnBuffer",
                    data |-> Drop(sent[1], DAWNCMD_MSG_HEADER_SIZE)] >> IN
    /\ fault = "none"
    /\ rl
    /\ io.active
    /\ cbs \in { <<>>, once }
    /\ sock.in = <<>> => cbs = once

\* C2: the bytes the writable handler has handed to the socket for the batch
\* flushed last are the leading bytes of: tag 'D', the big-endian uint32 N,
\* the N staged bytes in order; they are all of it once the batch is drained;
\* and they are the last bytes the socket has accepted
BatchOnWire ==
  g.bstate # "none" =>
    LET N == Len(g.batch)
        n == Len(g.bout) IN
    /\ n <= DAWNCMD_MSG_HEADER_SIZE + N
    /\ n >= 1 => g.bout[1] = 68
    /\ \A i \in 2..Min(n, 5) : g.bout[i] = (N \div (256 ^ (5 - i))) % 256
    /\ \A i \in 6..n : g.bout[i] = g.batch[i - 5]
    /\ g.bstate = "done" => n = DAWNCMD_MSG_HEADER_SIZE + N
    /\ n <= Len(sock.out)
    /\ SubSeq(sock.out, Len(sock.out) - n + 1, Len(sock.out)) = g.bout

\* a batch of two bytes or more was drained in full by two writes or more
BatchDrainedInParts ==
  g.bstate = "done" /\ g.bparts >= 2 /\ Len(g.batch) >= 2

\* C3: when one handler invocation parses a FrameSignal, its onFrame callback
\* returns with a flushed batch still to be written (flushlen # 0), and the
\* next message parsed is a FrameSignal too, then that second signal is
\* consumed without a callback; if these two signals are all the peer has
\* sent, onFrame was invoked once in total
FrameSignalCoalesced ==
  \A i \in 1..(Len(hlog) - 2) :
    ( /\ hlog[i] = [ev |-> "F", how |-> "onFrame"]
      /\ hlog[i + 1].ev = "cb"
      /\ hlog[i + 1].how # 0
      /\ hlog[i + 2].ev = "F" ) =>
        /\ hlog[i + 2] = [ev |-> "F", how |-> "skip"]
        /\ (fault = "none" /\ i + 2 = Len(hlog)) => len(rbuf) = 0
        /\ sent = << <<70>>, <<70>> >> =>
             cbs = << [cb |-> "onFrame", data |-> <<>>] >>

\* two frame signals were parsed back to back, the first one's callback
\* flushed a batch, the second one was dropped
SecondFrameSignalDropped ==
  /\ Len(hlog) >= 3
  /\ hlog[1] = [ev |-> "read", how |-> <<2>>]
  /\ hlog[2] = [ev |-> "F", how |-> "onFrame"]
  /\ hlog[3].ev = "cb" /\ hlog[3].how # 0
  /\ Len(hlog) = 4
  /\ hlog[4] = [ev |-> "F", how |-> "skip"]
  /\ sent = << <<70>>, <<70>> >>

\* C4: a handler invocation that finds a byte other than 'I', 'F', 'R', 'D'
\* in tag position parses nothing after it and leaves the connection stopped
\* (_rl cleared, the watcher unregistered); and once the connection is
\* stopped no callback is invoked any more
UnknownTagStops ==
  [][ /\ \A i \in 1..Len(hlog') :
           hlog'[i].ev = "?" => (i = Len(hlog') /\ ~rl' /\ ~io'.active)
      /\ ~rl => cbs' = cbs ]_vars

\* the connection was stopped at an unknown tag with more bytes behind it
UnknownTagSeen ==
  /\ hlog # <<>>
  /\ hlog[Len(hlog)].ev = "?"
  /\ len(rbuf) > 1
  /\ ~rl /\ ~io.active

\* C5: the assertion at the top of Flush() (flushlen == 0) never meets a
\* false condition, also on the server, whose onDawnBuffer calls Flush() for
\* every command batch it receives
FlushOnlyWhenDrained == "Flush:flushlen" \notin asserts

\* C6: after a GetCmdSpace call has failed for lack of room and Flush() was
\* then called with no drain in progress, the next GetCmdSpace(size) with
\* size at most the capacity minus the header size returns a region
ReclaimedBySwap ==
  [][ ( /\ g.reclaim = "swapped"
        /\ op'.name = "GetCmdSpace"
        /\ op'.arg <= WRITEBUF_SIZE - DAWNCMD_MSG_HEADER_SIZE ) =>
          (op'.ret # NULLPTR /\ g'.reclaim = "again") ]_vars

\* GetCmdSpace has failed, Flush() has swapped, GetCmdSpace has succeeded
ReclaimedAgain == g.reclaim = "again" /\ op.name = "GetCmdSpace"

\* C7: a Flush() called while the batch flushed before is drained in part
\* only (flushlen # 0, flushoffs < flushlen) leaves flushbuf, flushlen and
\* flushoffs as they are
PrematureFlushRejected ==
  [][ ( /\ op'.name = "Flush"
        /\ dawnout.flushlen # 0
        /\ dawnout.flushoffs < dawnout.flushlen ) =>
          /\ dawnout'.flushbuf = dawnout.flushbuf
          /\ dawnout'.flushlen = dawnout.flushlen
          /\ dawnout'.flushoffs = dawnout.flushoffs ]_vars

PipeRoundTrip ==
  /\ IsPrefix(pout, pin)
  /\ len(pipe) = Len(pin) - Len(pout)

\* a read() has returned bytes from both ends of the storage
PipeReadWrapped ==
  /\ pnum
  /\ pop.name = "read" /\ pop.ret >= 2
  /\ 0 < pipe.r /\ pipe.r < pop.ret

\* C10: after any sequence of Pipe operations, whatever the descriptor
\* returned: _r < Size, _w < Size, 0 <= len() <= cap(),
\* len() = (_w - _r) mod Size, len() + avail() = cap(), cap() = Size - 1
PipeCursors ==
  /\ 0 <= pipe.r /\ pipe.r < pipe.size
  /\ 0 <= pipe.w /\ pipe.w < pipe.size
  /\ 0 <= len(pipe) /\ len(pipe) <= cap(pipe)
  /\ len(pipe) = (pipe.w - pipe.r) % pipe.size
  /\ len(pipe) + avail(pipe) = cap(pipe)
  /\ cap(pipe) = pipe.size - 1
  /\ pipe.size = PIPE_SIZE

\* writeToFD has failed on a pipe whose content wraps around
PipeWrappedWriteFailed ==
  /\ pop.name = "writeToFD" /\ pop.ret = -1
  /\ pipe.w < pipe.r


\* C11: takeRef(n) with n <= len() returns null exactly when the n bytes at
\* the read cursor cross the physical end of the storage (_r + n > Size);
\* otherwise it hands out exactly those n bytes and moves the read cursor
\* past them. On null nothing changes and read(n) then copies those n bytes.
TakeRefContiguous ==
  [][(pop'.name = "takeRef" /\ pop'.n <= len(pipe)) =>
       LET n == pop'.n
           next == SubSeq(pin, Len(pout) + 1, Len(pout) + n) IN
       /\ pop'.null <=> (pipe.r + n > pipe.size)
       /\ pop'.null =>
            /\ pipe' = pipe
            /\ pout' = pout
            /\ read(pipe', n).ret = n
            /\ read(pipe', n).data = next
       /\ ~pop'.null =>
            /\ pop'.ret = n
            /\ pout' = pout \o next
            /\ pipe'.r = (pipe.r + n) % pipe.size
            /\ pipe'.w = pipe.w]_vars

\* C11 witness: takeRef(n), 0 < n <= len(), refused because of the wrap
TakeRefRefused ==
  /\ pop.name = "takeRef"
  /\ pop.null
  /\ pop.n > 0
  /\ pop.n <= len(pipe)
  /\ pipe.r + pop.n > pipe.size

\* C12: every takeRef(n) that returns a reference, whatever n, covers
\* exactly n buffered bytes and moves the read cursor by exactly n.
TakeRefCoversRequest ==
  [][(pop'.name = "takeRef" /\ ~pop'.null) =>
       /\ pop'.ret = pop'.n
       /\ pop'.n <= len(pipe)
       /\ pipe'.r = (pipe.r + pop'.n) % pipe.size]_vars

\* C13: write(src, n) accepts min(n, avail()) bytes, returns that count,
\* appends the first min(n, avail()) bytes of src after the content and
\* leaves the read cursor alone; more than cap() bytes into an empty pipe
\* returns cap() and fills the pipe.
WriteAcceptsWhatFits ==
  [][pop'.name = "write" =>
       LET k == Min(pop'.n, avail(pipe))
           src == [i \in 1..pop'.n |-> Len(pin) + Len(pfd.in) + i] IN
       /\ pop'.ret = k
       /\ pipe'.r = pipe.r
       /\ len(pipe') = len(pipe) + k
       /\ read(pipe', len(pipe')).data
            = read(pipe, len(pipe)).data \o Take(src, k)
       /\ (len(pipe) = 0 /\ pop'.n > cap(pipe)) =>
            /\ pop'.ret = cap(pipe)
            /\ avail(pipe') = 0
            /\ len(pipe') = cap(pipe')]_vars

\* C13 witness: more than cap() bytes were written into an empty pipe
WriteTooLarge ==
  /\ pop.name = "write"
  /\ pop.n > cap(pipe)
  /\ pop.ret = cap(pipe)
  /\ Len(pin) = Len(pout) + cap(pipe)

\* C14: writeToFD moves the read cursor by the number of bytes the
\* descriptor accepted in the call, so what the descriptor has received is
\* always the front of what was written to the pipe, and the pipe is empty
\* only when the descriptor has received everything.
WriteToFDAdvancesByAccepted ==
  [][pop'.name = "writeToFD" =>
       /\ pipe'.r = (pipe.r + (Len(pout') - Len(pout))) % pipe.size
       /\ IsPrefix(pout', pin)
       /\ len(pipe') = 0 => pout' = pin]_vars

\* C15: readFromFD moves the write cursor by the number of bytes it took
\* from the descriptor in the call, whatever the outcome, so the content of
\* the pipe is everything taken from the descriptor and not yet read.
ReadFromFDAdvancesByConsumed ==
  [][pop'.name = "readFromFD" =>
       /\ pipe'.w = (pipe.w + (Len(pfd.in) - Len(pfd'.in))) % pipe.size
       /\ read(pipe', len(pipe')).data
            = SubSeq(pin', Len(pout') + 1, Len(pin'))]_vars

\* C16 as stated: after write(cap() bytes), read(cap() - 1), write(2 bytes)
\* on an empty pipe, reading the content back gives bytes 2..cap() of the
\* first write followed by the 2 new bytes.
WrapReadBackFromSecond ==
  pop.step = 4 =>
    LET c == cap(pipe)
        b == Len(pin) - c - 2
        back == SubSeq(pout, Len(pout) - pop.ret + 1, Len(pout)) IN
    back = [k \in 1..(c + 1) |-> b + k + 1]

\* C16 amended: after write(cap() bytes), read(cap() - 1), write(2 bytes) on
\* an empty pipe, reading the content back gives the last byte (byte cap())
\* of the first write followed by the 2 new bytes.
WrapReadBackLast ==
  pop.step = 4 =>
    LET c == cap(pipe)
        b == Len(pin) - c - 2
        back == SubSeq(pout, Len(pout) - pop.ret + 1, Len(pout)) IN
    /\ pop.ret = 3
    /\ back = <<b + c, b + c + 1, b + c + 2>>

\* C16 witness: the sequence was run to its end, and the 2 new bytes wrapped
\* around the end of the storage
WrapReadBackDone ==
  /\ pop.step = 4
  /\ Len(pout) = Len(pin)
  /\ pipe.r < 2


\* C17: a readable notification whose read() returns -1 with EAGAIN is
\* nothing to do: the connection is not stopped, no callback runs, and the
\* inbound buffer, the parse state and the accumulator stay as they are.
ReadWouldBlockIgnored ==
  [][( /\ Len(hlog') = 2
       /\ hlog'[1].ev = "read"
       /\ hlog'[1].how = <<-1>>
       /\ hlog'[2].ev = "errno"
       /\ hlog'[2].how = "EAGAIN" ) =>
       /\ rl' = rl
       /\ io' = io
       /\ cbs' = cbs
       /\ rbuf' = rbuf
       /\ dawnCmdRLen' = dawnCmdRLen
       /\ dawnout' = dawnout]_vars

\* C18: whenever a read() or write() issued by doIO fails with an error
\* other than EAGAIN, stop() is called: the engine ends the invocation
\* stopped, with its watcher unregistered.
IOErrorStops ==
  [][\A i \in 1..Len(hlog') :
       (hlog'[i].ev = "errno" /\ hlog'[i].how # "EAGAIN") =>
         (~rl' /\ ~io'.active)]_vars

\* C19: a CommandBatch header whose length is 0 or more than DAWNCMD_MAX
\* ends the handling at once with the connection stopped: onDawnBuffer is
\* not invoked, nothing more is parsed and the process does not abort.
BadBatchLengthStops ==
  [][\A i \in 1..Len(hlog') :
       ( /\ hlog'[i].ev = "H"
         /\ (hlog'[i].how = 0 \/ hlog'[i].how > DAWNCMD_MAX) ) =>
         /\ i = Len(hlog')
         /\ fault' = "none"
         /\ cbs' = cbs
         /\ ~rl' /\ ~io'.active]_vars

\* C20: Conn::close() on a connection that was closed before changes
\* nothing: no further unregistration, no further ::close() of the
\* descriptor.
CloseIdempotent ==
  [][(op'.name = "close" /\ g.closes > 0) =>
       /\ g'.closes = g.closes
       /\ rl' = rl
       /\ io' = io
       /\ dawnout' = dawnout
       /\ rbuf' = rbuf
       /\ wbuf' = wbuf]_vars


\* C21: on a running connection EV_WRITE is registered whenever a flushed
\* batch is draining (flushlen != 0) or _wbuf holds bytes, and a writable
\* handler that ends with neither pending has deregistered EV_WRITE.
WriteInterestTracksPending ==
  /\ [](( rl /\ fault = "none"
          /\ (dawnout.flushlen # 0 \/ len(wbuf) > 0) ) =>
            (io.active /\ "WRITE" \in io.events))
  /\ [][( /\ op'.name = "doIO"
          /\ "WRITE" \in op'.arg
          /\ rl' /\ fault' = "none"
          /\ dawnout'.flushlen = 0
          /\ len(wbuf') = 0 ) =>
            (io'.active /\ "WRITE" \notin io'.events)]_vars

\* C21 witness: a writable handler drained the rest of a batch and the
\* control messages behind it, and deregistered EV_WRITE
WriteInterestDropped ==
  /\ op.name = "doIO"
  /\ "WRITE" \in op.arg
  /\ rl /\ fault = "none"
  /\ Len(hlog) = 2
  /\ hlog[1].ev = "flush"
  /\ hlog[2].ev = "wbuf"
  /\ dawnout.flushlen = 0
  /\ len(wbuf) = 0
  /\ "WRITE" \notin io.events


\* C22: Flush() with staged payload and no drain in progress leaves as
\* flushbuf the former writebuf, its first bytes the header 'D' + big-endian
\* (writelen - header size), flushlen = the former writelen, flushoffs = 0,
\* writelen = header size, and EV_WRITE requested on a running connection;
\* Flush() with nothing staged changes nothing and returns true.
FlushSwaps ==
  [][(op'.name = "Flush" /\ dawnout.flushlen = 0) =>
       IF dawnout.writelen > DAWNCMD_MSG_HEADER_SIZE
         THEN LET n == dawnout.writelen - DAWNCMD_MSG_HEADER_SIZE
                  hdr == <<68, (n \div 16777216) % 256, (n \div 65536) % 256,
                           (n \div 256) % 256, n % 256>> IN
              /\ dawnout'.flushbuf =
                   [i \in DOMAIN dawnout.writebuf |->
                      IF i < DAWNCMD_MSG_HEADER_SIZE THEN hdr[i + 1]
                      ELSE dawnout.writebuf[i]]
              /\ dawnout'.writebuf = dawnout.flushbuf
              /\ dawnout'.flushlen = dawnout.writelen
              /\ dawnout'.flushoffs = 0
              /\ dawnout'.writelen = DAWNCMD_MSG_HEADER_SIZE
              /\ rl => (io'.active /\ "WRITE" \in io'.events)
              /\ op'.ret = TRUE
              /\ fault' = "none"
         ELSE /\ dawnout' = dawnout
              /\ io' = io
              /\ rl' = rl
              /\ rbuf' = rbuf
              /\ wbuf' = wbuf
              /\ sock' = sock
              /\ op'.ret = TRUE
              /\ fault' = "none"]_vars

\* C22 witness: Flush() has just swapped a staged batch of 2 bytes over
FlushSwapped ==
  /\ op.name = "Flush"
  /\ rl
  /\ dawnout.flushlen = DAWNCMD_MSG_HEADER_SIZE + 2
  /\ dawnout.flushoffs = 0
  /\ dawnout.writelen = DAWNCMD_MSG_HEADER_SIZE
  /\ g.bstate = "draining"
  /\ g.bout = <<>>
  /\ "WRITE" \in io.events


\* C23 as stated: once stop() has returned, no readiness handler runs for
\* the connection and its descriptor is closed.
StoppedMeansClosed ==
  ~rl => (~io.active /\ g.closes > 0)

\* C23 amended: stop() unregisters the watcher, so that once it has returned
\* no readiness handler runs for the connection; it does not close the
\* descriptor, which only Conn::close() closes, after calling stop().
StopUnregistersOnly ==
  /\ [](~rl => ~io.active)
  /\ [][~rl => op'.name # "doIO"]_vars
  /\ [][(rl /\ ~rl' /\ op'.name # "close") => g'.closes = g.closes]_vars
  /\ [][op'.name = "close" => (~rl' /\ g'.closes = g.closes + 1)]_vars

\* C23 witness: a handler has called stop() (end of stream or a failed
\* read) and the descriptor is still open
StoppedStillOpen ==
  /\ op.name = "doIO"
  /\ ~rl
  /\ ~io.active
  /\ g.closes = 0


\* C24: readMsg terminates for every content of the inbound buffer; with
\* tag 'D' and fewer bytes than a header it returns to the reactor instead
\* of iterating again without consuming anything.
ReadMsgTerminates ==
  /\ fault # "hang"
  /\ \A i \in 1..Len(hlog) : hlog[i].ev # "spin"

\* C25: once a CommandBatch header is decoded and fewer body bytes than its
\* length are buffered, the handler parses nothing more in this turn: no
\* body byte is taken as a message tag.
BodyNotParsedAsTags ==
  [][\A i \in 1..(Len(hlog') - 1) :
       ( /\ hlog'[i].ev = "H"
         /\ hlog'[i].how >= 1
         /\ hlog'[i].how <= DAWNCMD_MAX ) =>
         hlog'[i + 1].ev = "D"]_vars

\* C26: onFramebufferInfo and onSwapchainReservation are invoked only with
\* the whole fixed-size message buffered, with the payload the peer sent.
FixedMsgsWhole ==
  /\ \A i \in 1..Len(hlog) :
       /\ hlog[i].ev = "I" => hlog[i].how = FB_INFO_SIZE + 1
       /\ hlog[i].ev = "R" => hlog[i].how = RESERVATION_SIZE + 1
  /\ \A i \in 1..Len(cbs) :
       /\ cbs[i].cb = "onFramebufferInfo" => cbs[i].data = FbInfo
       /\ cbs[i].cb = "onSwapchainReservation" => cbs[i].data = Reservation

\* C27: when a readable handler returns with the connection running, the
\* inbound buffer holds no complete next message, also after a batch whose
\* body this read completed.
NoCompleteMsgLeft ==
  [][( /\ op'.name = "doIO"
       /\ "READ" \in op'.arg
       /\ rl' /\ fault' = "none"
       /\ dawnCmdRLen' = 0
       /\ len(rbuf') > 0 ) =>
       LET tag == read(rbuf', 1).data[1]
           n == len(rbuf')
           hdr == read(rbuf', DAWNCMD_MSG_HEADER_SIZE).data IN
       /\ tag # 70
       /\ tag = 73 => n < FB_INFO_SIZE + 1
       /\ tag = 82 => n < RESERVATION_SIZE + 1
       /\ tag = 68 =>
            \/ n < DAWNCMD_MSG_HEADER_SIZE
            \/ n < DAWNCMD_MSG_HEADER_SIZE
                     + hdr[2] * 16777216 + hdr[3] * 65536
                     + hdr[4] * 256 + hdr[5]]_vars


\* C28: once a callback invoked from readMsg has called stop(), readMsg
\* invokes no further callback for the messages buffered behind it.
NoCallbackAfterStop ==
  [][\A i \in 1..Len(hlog') :
       hlog'[i].ev = "stop" =>
         \A j \in (i + 2)..Len(hlog') : hlog'[j].ev # "cb"]_vars


\* C29: each parsed FrameSignal consumes exactly one byte; onFrame is
\* invoked if and only if flushlen = 0 at that moment; with flushlen # 0 the
\* signal is dropped, the connection is not stopped and what is buffered
\* after it is still processed.
FrameSignalOneByte ==
  [][(op'.name = "doIO" /\ "READ" \in op'.arg) =>
       LET h == hlog'
           Fs == { i \in 1..Len(h) : h[i].ev = "F" }
           \* flushlen when event i is parsed
           FlushLenAt(i) ==
             LET before == { j \in 1..(i - 1) : h[j].ev = "cb" } IN
             IF before = {} THEN dawnout.flushlen
             ELSE h[CHOOSE j \in before : \A k \in before : k <= j].how
           sys == h[1].how
           nread == IF Len(sys) = 0 THEN 0
                    ELSE IF Len(sys) = 1 THEN Max(sys[1], 0)
                    ELSE Max(sys[1], 0) + Max(sys[2], 0)
           onlyF == \A i \in 2..Len(h) : h[i].ev \in {"F", "cb"}
       IN
       /\ \A i \in Fs :
            /\ (h[i].how = "onFrame") <=> (FlushLenAt(i) = 0)
            /\ h[i].how = "onFrame" =>
                 (i < Len(h) /\ h[i + 1].ev = "cb")
            /\ h[i].how # "onFrame" =>
                 /\ h[i].how = "skip"
                 /\ i < Len(h) => h[i + 1].ev # "cb"
       /\ Len(cbs') - Len(cbs) =
            Cardinality({ i \in 2..Len(h) : h[i].ev = "cb" })
       /\ (Fs # {} /\ onlyF /\ dawnCmdRLen = 0) =>
            /\ len(rbuf) + nread - len(rbuf') = Cardinality(Fs)
            /\ len(rbuf') = 0
            /\ rl' = rl
            /\ fault' = "none"
            /\ \A k \in 1..(Len(cbs') - Len(cbs)) :
                 cbs'[Len(cbs) + k] = [cb |-> "onFrame", data |-> <<>>]]_vars

\* C29 witness: a FrameSignal read on its own while a batch is in flight was
\* dropped: one byte consumed, no callback, the connection still runs
FrameSignalsDropped ==
  /\ op.name = "doIO"
  /\ rl /\ fault = "none"
  /\ Len(hlog) = 2
  /\ hlog[1].ev = "read"
  /\ hlog[1].how = <<1>>
  /\ hlog[2] = [ev |-> "F", how |-> "skip"]
  /\ dawnout.flushlen # 0
  /\ len(rbuf) = 0
  /\ Len(cbs) = 1


\* C30: flushlen # 0 implies flushoffs < flushlen and the two assertions of
\* the writable handler never fail; a writable handler issues at most one
\* write for the batch; a write of n > 0 bytes advances flushoffs by n, a
\* failed write leaves the flush state as it is, and flushlen becomes 0
\* exactly when flushoffs reaches flushlen.
DrainProgress ==
  /\ [](dawnout.flushlen # 0 => dawnout.flushoffs < dawnout.flushlen)
  /\ []("doIO:flushlen>flushoffs" \notin asserts
          /\ "doIO:flushoffs<flushlen" \notin asserts)
  /\ [][op'.name = "doIO" =>
          LET h == hlog'
              Ws == { i \in 1..Len(h) : h[i].ev = "flush" } IN
          /\ Cardinality(Ws) <= 1
          /\ \A i \in Ws :
               LET n == h[i].how[1] IN
               /\ dawnout.flushlen # 0
               /\ n > 0 =>
                    /\ dawnout.flushoffs + n <= dawnout.flushlen
                    /\ dawnout'.flushoffs = dawnout.flushoffs + n
                    /\ dawnout'.flushlen =
                         IF dawnout.flushoffs + n = dawnout.flushlen
                           THEN 0 ELSE dawnout.flushlen
                    /\ dawnout'.flushbuf = dawnout.flushbuf
                    /\ dawnout'.writebuf = dawnout.writebuf
                    /\ dawnout'.writelen = dawnout.writelen
               /\ n <= 0 => dawnout' = dawnout]_vars

\* C30 witness: a batch is half drained after a short write
DrainHalfWay ==
  /\ op.name = "doIO"
  /\ Len(hlog) = 1
  /\ hlog[1].ev = "flush"
  /\ hlog[1].how[1] > 0
  /\ dawnout.flushlen # 0
  /\ dawnout.flushoffs > 0
  /\ dawnout.flushoffs < dawnout.flushlen


\* C31: a writable handler that leaves a flushed batch draining (flushlen # 0
\* when it returns) has written no byte of _wbuf and leaves EV_WRITE
\* registered; _wbuf is written only in a handler invocation that ends with
\* flushlen = 0.
WbufWaitsForBatch ==
  [][( /\ op'.name = "doIO"
       /\ "WRITE" \in op'.arg
       /\ fault' = "none" ) =>
       LET h == hlog'
           drained == \E i \in 1..Len(h) : h[i].ev = "wbuf" IN
       /\ (rl' /\ dawnout'.flushlen # 0) =>
            /\ ~drained
            /\ wbuf' = wbuf
            /\ io'.active
            /\ "WRITE" \in io'.events
            /\ \E k \in 0..(dawnout.flushlen - dawnout.flushoffs) :
                 sock'.out = sock.out
                               \o bytesAt(dawnout.flushbuf, dawnout.flushoffs, k)
       /\ drained => dawnout'.flushlen = 0]_vars

\* C31 witness: a short write of a batch returned with a frame signal still
\* waiting in _wbuf
WbufHeldBack ==
  /\ op.name = "doIO"
  /\ "WRITE" \in op.arg
  /\ rl /\ fault = "none"
  /\ Len(hlog) = 1
  /\ hlog[1].ev = "flush"
  /\ hlog[1].how[1] > 0
  /\ dawnout.flushlen # 0
  /\ len(wbuf) = 1
  /\ "WRITE" \in io.events


\* C32: under a fair reactor (the socket is writable again and again, every
\* write accepts at least one byte) on a running connection, every flushed
\* batch drains completely and every control message queued in _wbuf is
\* written in full.
DrainCompletes ==
  /\ [](rl /\ fault = "none")
  /\ (dawnout.flushlen # 0) ~> (dawnout.flushlen = 0)
  /\ (g.bstate = "draining") ~> (g.bstate = "done"
        /\ g.bout = encodeDawnCmdHeader(Len(g.batch)) \o g.batch)
  /\ []<>(g.ctlout = g.ctl)


HeaderRoundTrip ==
  /\ [][op'.name = "encodeDawnCmdHeader" =>
          LET n == op'.arg
              h == op'.ret IN
          /\ Len(h) = DAWNCMD_MSG_HEADER_SIZE
          /\ h[1] = 68
          /\ h[2] = (n \div 16777216) % 256
          /\ h[3] = (n \div 65536) % 256
          /\ h[4] = (n \div 256) % 256
          /\ h[5] = n % 256]_vars
  /\ [][op'.name = "decodeDawnCmdHeader" =>
          /\ op.name = "encodeDawnCmdHeader"
          /\ op'.arg = op.ret
          /\ op'.ret = op.arg]_vars

\* C34 witness: the length 0x010080FF was encoded as 'D' 01 00 80 FF and
\* decoded again
HeaderDecodedBack ==
  /\ op.name = "decodeDawnCmdHeader"
  /\ op.arg = <<68, 1, 0, 128, 255>>
  /\ op.ret = 16810239


\* C35: a readable handler whose read attempt found no free space in the
\* inbound buffer (avail() = 0, readFromFD returned 0 without a read
\* syscall) does not stop the connection: end of stream is a read syscall
\* that returned 0.
FullBufferIsNotEOF ==
  [][( /\ op'.name = "doIO"
       /\ "READ" \in op'.arg
       /\ rl
       /\ avail(rbuf) = 0
       /\ hlog'[1].ev = "read"
       /\ hlog'[1].how = <<>> ) => rl']_vars


\* C36: the bytes handed to the socket over the life of a connection are at
\* every moment a prefix of a concatenation of whole messages ('F',
\* 'I' + record, 'R' + record, 'D' + length + payload).
OutboundWellFormed ==
  WholeMsgsPrefix(sock.out)


\* C37: start() after stop() leaves the engine as it was at the first
\* start, in whatever state it was stopped: both buffers empty,
\* _dawnCmdRLen = 0, writelen = header size, flushlen = 0, and only EV_READ
\* registered.
RestartIsFresh ==
  [][op'.name = "start" =>
       /\ len(rbuf') = 0
       /\ len(wbuf') = 0
       /\ dawnCmdRLen' = 0
       /\ dawnout'.writelen = DAWNCMD_MSG_HEADER_SIZE
       /\ dawnout'.flushlen = 0
       /\ rl'
       /\ io' = [events |-> {"READ"}, active |-> TRUE]]_vars


\* C38: sendFrameSignal, sendFramebufferInfo and sendReservation either
\* append the whole message (tag + payload) to _wbuf, ask for EV_WRITE and
\* return true, or, with avail() smaller than the message, return false and
\* leave _wbuf and the registered events as they are; _wbuf never receives
\* a part of a message.
SendAllOrNothing ==
  [][op'.name \in {"sendFrameSignal", "sendFramebufferInfo",
                   "sendReservation"} =>
       LET msg == IF op'.name = "sendFrameSignal" THEN <<70>>
                  ELSE IF op'.name = "sendFramebufferInfo"
                    THEN <<73>> \o FbInfo
                  ELSE <<82>> \o Reservation
           before == read(wbuf, len(wbuf)).data
           after == read(wbuf', len(wbuf')).data IN
       /\ fault' = "none"
       /\ rbuf' = rbuf /\ dawnout' = dawnout /\ rl' = rl /\ sock' = sock
       /\ IF avail(wbuf) < Len(msg)
            THEN /\ op'.ret = FALSE
                 /\ wbuf' = wbuf
                 /\ io' = io
            ELSE /\ op'.ret = TRUE
                 /\ after = before \o msg
                 /\ rl => (io'.active /\ io'.events = io.events \cup {"WRITE"})
                 /\ ~rl => io' = io]_vars

\* C38 witness: with a frame signal queued, sendFramebufferInfo found less
\* room than its message needs and returned false
SendRefused ==
  /\ op.name = "sendFramebufferInfo"
  /\ op.ret = FALSE
  /\ len(wbuf) = 1
  /\ avail(wbuf) = FB_INFO_SIZE
  /\ at(wbuf, 0) = 70


\* C39: at every moment at most one connection has a registered watcher,
\* and it is conn0; onServerIO stops and closes the previous connection
\* before the new one starts; connection ids are strictly increasing; when
\* the frame timer's sendFrameSignal fails (engine stopped or _wbuf full)
\* the connection is closed and deleted and conn0 set to null, and a deleted
\* connection is never used again.
LastInWins ==
  /\ [](\A i \in 1..Len(conns) :
          /\ conns[i].E.io.active => (i = conn0 /\ ~conns[i].deleted)
          /\ conns[i].deleted =>
               /\ i # conn0
               /\ ~conns[i].E.rl
               /\ conns[i].E.g.closes >= 1
          /\ \A j \in 1..Len(conns) : i < j => conns[i].id < conns[j].id)
  /\ [][op'.name = "onServerIO" =>
          /\ conn0 # 0 =>
               /\ ~conns'[conn0].E.rl
               /\ ~conns'[conn0].E.io.active
               /\ conns'[conn0].E.g.closes >= 1
          /\ Len(conns') = Len(conns) + 1
          /\ conn0' = Len(conns')
          /\ conns'[conn0'].id = connIdGen
          /\ connIdGen' = connIdGen + 1
          /\ conns'[conn0'].E.rl
          /\ conns'[conn0'].E.io.active]_vars
  /\ [][(op'.name = "onFrameTimer" /\ conn0 # 0) =>
          LET E == conns[conn0].E
              fails == ~E.rl \/ avail(E.wbuf) < 1 IN
          IF fails
            THEN /\ op'.ret = FALSE
                 /\ conn0' = 0
                 /\ conns'[conn0].deleted
                 /\ ~conns'[conn0].E.rl
                 /\ ~conns'[conn0].E.io.active
                 /\ conns'[conn0].E.g.closes >= 1
            ELSE /\ op'.ret = TRUE
                 /\ conn0' = conn0
                 /\ ~conns'[conn0].deleted]_vars
  /\ [][\A i \in 1..Len(conns) :
          conns[i].deleted => conns'[i] = conns[i]]_vars

\* C39 witness: the first connection was closed when the second client was
\* accepted, and the second was closed and deleted when the frame timer
\* could not send
SecondConnDropped ==
  /\ op.name = "onFrameTimer"
  /\ op.ret = FALSE
  /\ conn0 = 0
  /\ Len(conns) = 2
  /\ ~conns[1].deleted
  /\ conns[1].E.g.closes = 1
  /\ conns[2].deleted
  /\ conns[2].E.g.closes = 1

\* C40: at(index) returns, for every index below len(), the byte that lies
\* index positions after the read cursor in wrapping order, which is the
\* last of the index + 1 bytes a read would return now; at(0) is the next
\* byte a read would return; the call changes nothing of the pipe.
AtIsIndexed ==
  (pop.name = "at" /\ pop.n < len(pipe)) =>
    pop.ret = read(pipe, pop.n + 1).data[pop.n + 1]

====
